---- MODULE Spec2Model ----
(***************************************************************************)
(* Model of the beatmap scanner of src-tauri/src/main.rs: the .osu parser  *)
(* (parse_osu_content, parse_header_creator_and_version), the per-file     *)
(* change detector and mapper filter (scan_single_osu_file), the directory *)
(* walker (find_osu_files_with_mtime) and the two scan entry points        *)
(* (scan_directory_streaming, scan_directory_internal).                    *)
(*                                                                         *)
(* Text is modelled as Rust holds it: a String / &str is a sequence of     *)
(* UTF-8 bytes (0..255), a file is a sequence of bytes that need not be    *)
(* valid UTF-8.  Option<T> is a sequence of length <= 1: None is <<>> and  *)
(* Some(x) is <<x>>.  A modification time (f64, milliseconds) is an        *)
(* integer number of quarter milliseconds, so that 0.5 ms is 2 units.      *)
(***************************************************************************)
EXTENDS Integers, Sequences, FiniteSets, TLC

None == <<>>
Some(x) == <<x>>
IsSome(o) == Len(o) = 1
Unwrap(o) == o[1]

Max(a, b) == IF a >= b THEN a ELSE b
Min(a, b) == IF a <= b THEN a ELSE b

(***************************************************************************)
(* Byte strings.                                                           *)
(***************************************************************************)

\* char::is_whitespace restricted to one-byte characters (tab, LF, VT, FF,
\* CR, space): what str::trim removes at both ends.
IsWhitespace(b) == b \in {9, 10, 11, 12, 13, 32}

\* u8::to_ascii_lowercase
ByteLower(b) == IF b >= 65 /\ b <= 90 THEN b + 32 ELSE b

\* str::to_ascii_lowercase
to_ascii_lowercase(s) == [i \in 1..Len(s) |-> ByteLower(s[i])]

\* str::trim
trim(s) ==
  LET keep == {i \in 1..Len(s) : ~IsWhitespace(s[i])}
  IN  IF keep = {} THEN <<>>
      ELSE LET lo == CHOOSE i \in keep : \A j \in keep : i <= j
               hi == CHOOSE i \in keep : \A j \in keep : i >= j
           IN  SubSeq(s, lo, hi)

\* Position of the first byte b of s at or after position from (1-based), 0
\* when there is none.
FindByte(s, b, from) ==
  LET hits == {i \in from..Len(s) : s[i] = b}
  IN  IF hits = {} THEN 0 ELSE CHOOSE i \in hits : \A j \in hits : i <= j

\* str::trim_matches('"')
trim_matches_quote(s) ==
  LET keep == {i \in 1..Len(s) : s[i] # 34}
  IN  IF keep = {} THEN <<>>
      ELSE LET lo == CHOOSE i \in keep : \A j \in keep : i <= j
               hi == CHOOSE i \in keep : \A j \in keep : i >= j
           IN  SubSeq(s, lo, hi)

\* str::contains(&str)
contains(hay, needle) ==
  \E i \in 0..(Len(hay) - Len(needle)) : SubSeq(hay, i + 1, i + Len(needle)) = needle

\* str::split_once(':'): None, or Some(<<before, after>>) at the first colon.
split_once_colon(s) ==
  LET i == FindByte(s, 58, 1)
  IN  IF i = 0 THEN None
      ELSE Some(<<SubSeq(s, 1, i - 1), SubSeq(s, i + 1, Len(s))>>)

\* str::split(sep): the pieces between the separators, empty pieces kept.
RECURSIVE split(_, _)
split(s, sep) ==
  LET i == FindByte(s, sep, 1)
  IN  IF i = 0 THEN <<s>>
      ELSE <<SubSeq(s, 1, i - 1)>> \o split(SubSeq(s, i + 1, Len(s)), sep)

\* str::lines: split at LF, a CR before the LF dropped, no line for the empty
\* rest after a final LF.
RECURSIVE lines(_)
lines(s) ==
  IF s = <<>> THEN <<>>
  ELSE LET i   == FindByte(s, 10, 1)
           raw == IF i = 0 THEN s ELSE SubSeq(s, 1, i - 1)
           ln  == IF i # 0 /\ raw # <<>> /\ raw[Len(raw)] = 13
                    THEN SubSeq(raw, 1, Len(raw) - 1) ELSE raw
       IN  IF i = 0 THEN <<ln>> ELSE <<ln>> \o lines(SubSeq(s, i + 1, Len(s)))

\* A UTF-8 continuation byte.
IsCont(b) == b >= 128 /\ b <= 191

\* str::is_char_boundary(idx), idx a 0-based byte offset into s.
is_char_boundary(s, idx) ==
  \/ idx = 0
  \/ idx = Len(s)
  \/ idx > 0 /\ idx < Len(s) /\ ~IsCont(s[idx + 1])

\* Length in bytes of the well-formed UTF-8 character that starts at position
\* i of s (1-based), 0 when the bytes there are ill-formed.
Utf8CharLen(s, i) ==
  LET b == s[i]
      c(k) == IF i + k <= Len(s) THEN s[i + k] ELSE 0
  IN  IF b < 128 THEN 1
      ELSE IF b >= 194 /\ b <= 223 THEN (IF IsCont(c(1)) THEN 2 ELSE 0)
      ELSE IF b >= 224 /\ b <= 239 THEN
             (IF /\ IsCont(c(1)) /\ IsCont(c(2))
                 /\ (b = 224 => c(1) >= 160)
                 /\ (b = 237 => c(1) <= 159)
              THEN 3 ELSE 0)
      ELSE IF b >= 240 /\ b <= 244 THEN
             (IF /\ IsCont(c(1)) /\ IsCont(c(2)) /\ IsCont(c(3))
                 /\ (b = 240 => c(1) >= 144)
                 /\ (b = 244 => c(1) <= 143)
              THEN 4 ELSE 0)
      ELSE 0

\* Whether the byte at position p is covered by a well-formed character that
\* starts k bytes before it, at or after position i.
CoveredFrom(s, i, p, k) ==
  /\ p - k >= i
  /\ ~IsCont(s[p - k])
  /\ \A q \in (p - k + 1)..(p - 1) : IsCont(s[q])
  /\ Utf8CharLen(s, p - k) > k

\* Whether decoding s from the character boundary i fails at position p: a
\* lead byte that starts no well-formed character, or a continuation byte that
\* belongs to none.
IsBadAt(s, i, p) ==
  IF IsCont(s[p]) THEN \A k \in 1..3 : ~CoveredFrom(s, i, p, k)
  ELSE Utf8CharLen(s, p) = 0

\* The first position at or after the character boundary i where decoding
\* fails, 0 when the rest of s is well-formed.
FirstBad(s, i) ==
  IF \A p \in i..Len(s) : ~IsBadAt(s, i, p) THEN 0
  ELSE CHOOSE p \in i..Len(s) :
         IsBadAt(s, i, p) /\ \A q \in i..(p - 1) : ~IsBadAt(s, i, q)

\* std::str::from_utf8(bytes).is_ok(): read_to_string fails on other bytes.
is_valid_utf8(s) == FirstBad(s, 1) = 0

\* Number of bytes of the ill-formed sequence at position i that one U+FFFD
\* replaces: the lead byte and the continuation bytes that could follow it.
Utf8BadLen(s, i) ==
  LET b == s[i]
      want == IF b >= 194 /\ b <= 223 THEN 1
              ELSE IF b >= 224 /\ b <= 239 THEN 2
              ELSE IF b >= 240 /\ b <= 244 THEN 3 ELSE 0
      c(k) == IF i + k <= Len(s) THEN s[i + k] ELSE 0
      ok1 == /\ want >= 1 /\ IsCont(c(1))
             /\ (b = 224 => c(1) >= 160) /\ (b = 237 => c(1) <= 159)
             /\ (b = 240 => c(1) >= 144) /\ (b = 244 => c(1) <= 143)
      ok2 == ok1 /\ want >= 2 /\ IsCont(c(2))
  IN  IF ok2 THEN 3 ELSE IF ok1 THEN 2 ELSE 1

\* String::from_utf8_lossy: well-formed characters are kept, each ill-formed
\* sequence becomes U+FFFD (bytes EF BF BD).  bad is the first position at or
\* after i where decoding fails.
RECURSIVE LossyFrom(_, _, _)
LossyFrom(s, i, bad) ==
  IF bad = 0 THEN SubSeq(s, i, Len(s))
  ELSE SubSeq(s, i, bad - 1) \o <<239, 191, 189>>
         \o LossyFrom(s, bad + Utf8BadLen(s, bad), FirstBad(s, bad + Utf8BadLen(s, bad)))

from_utf8_lossy(s) == LossyFrom(s, 1, FirstBad(s, 1))

I32Max == 2147483647
I32Min == (-I32Max) - 1

\* The magnitude of a string of ASCII digits, accumulated digit by digit as
\* i32::from_str does, with the two ways it can leave the positive range:
\* -1 stands for exactly I32Max + 1, -2 for anything larger.
RECURSIVE DigitsValue(_, _, _)
DigitsValue(s, i, acc) ==
  IF i > Len(s) THEN acc
  ELSE LET d == s[i] - 48
       IN  IF acc < 0 THEN -2
           ELSE IF acc < I32Max \div 10 THEN DigitsValue(s, i + 1, acc * 10 + d)
           ELSE IF acc > I32Max \div 10 THEN -2
           ELSE IF d <= 7 THEN DigitsValue(s, i + 1, acc * 10 + d)
           ELSE IF d = 8 THEN DigitsValue(s, i + 1, -1)
           ELSE -2

\* str::parse::<i32>: an optional sign and at least one digit, nothing else
\* (no blanks), the value within the 32-bit range; None otherwise.
parse_i32(s) ==
  LET signed == s # <<>> /\ s[1] \in {43, 45}
      negative == signed /\ s[1] = 45
      digits == IF signed THEN Tail(s) ELSE s
      allnum == \A i \in 1..Len(digits) : digits[i] >= 48 /\ digits[i] <= 57
  IN  IF digits = <<>> \/ ~allnum THEN None
      ELSE LET mag == DigitsValue(digits, 1, 0)
           IN  IF mag = -2 THEN None
               ELSE IF mag = -1 THEN (IF negative THEN Some(I32Min) ELSE None)
               ELSE Some(IF negative THEN -mag ELSE mag)

\* The decimal digits of a natural number, as format!("{id}") writes them.
RECURSIVE NatDigits(_)
NatDigits(n) == IF n < 10 THEN <<48 + n>> ELSE NatDigits(n \div 10) \o <<48 + (n % 10)>>

(***************************************************************************)
(* f64 values.  A value is NaN, an infinity, a finite value beyond the     *)
(* i32 range ("big": only its sign matters once it is cast), or a rational *)
(* num/den in lowest terms.  The arithmetic is exact; a result whose size   *)
(* the 32-bit integers of the model cannot decide is "lost", and casting it *)
(* is an error of the model, not a value.  -0.0 is not distinguished.       *)
(***************************************************************************)

RECURSIVE Gcd(_, _)
Gcd(a, b) == IF b = 0 THEN a ELSE Gcd(b, a % b)

Abs(x) == IF x < 0 THEN -x ELSE x

Sign(x) == IF x < 0 THEN -1 ELSE 1

FNan == [kind |-> "nan", num |-> 0, den |-> 1]
FInf(sg) == [kind |-> "inf", num |-> sg, den |-> 1]
FBig(sg) == [kind |-> "big", num |-> sg, den |-> 1]
FLost == [kind |-> "lost", num |-> 0, den |-> 1]
\* -0.0; FInt(0) is +0.0
FNegZero == [kind |-> "negzero", num |-> 0, den |-> 1]

\* The rational n/d, d > 0, in lowest terms.
FRat(n, d) ==
  [kind |-> "rat", num |-> n \div Gcd(Abs(n), d), den |-> d \div Gcd(Abs(n), d)]

FInt(n) == FRat(n, 1)

\* The product of two naturals, -1 when it leaves the 32-bit range.
SafeMul(a, b) ==
  IF a = 0 \/ b = 0 THEN 0 ELSE IF a > I32Max \div b THEN -1 ELSE a * b

\* The rational of sign sg with numerator n and denominator d, either of
\* which may have left the range (-1).
FFromProducts(sg, n, d) ==
  IF n = 0 THEN (IF sg < 0 THEN FNegZero ELSE FInt(0))
  ELSE IF n > 0 /\ d > 0 THEN FRat(sg * n, d)
  ELSE IF n < 0 /\ d = 1 THEN FBig(sg)
  ELSE FLost

\* x * y of two rationals, reduced crosswise before multiplying.
FMulRat(a, b, c, d) ==
  FFromProducts(Sign(a) * Sign(c),
                SafeMul(Abs(a) \div Gcd(Abs(a), d), Abs(c) \div Gcd(Abs(c), b)),
                SafeMul(b \div Gcd(Abs(c), b), d \div Gcd(Abs(a), d)))

IsZero(x) == x.kind = "negzero" \/ (x.kind = "rat" /\ x.num = 0)

\* The sign bit of a value that is neither NaN nor lost.
FSign(x) == IF x.num < 0 \/ x.kind = "negzero" THEN -1 ELSE 1

\* The zero of sign sg.
FZero(sg) == IF sg < 0 THEN FNegZero ELSE FInt(0)

\* x * y
FMul(x, y) ==
  IF x.kind = "nan" \/ y.kind = "nan" THEN FNan
  ELSE IF x.kind = "lost" \/ y.kind = "lost" THEN FLost
  ELSE IF IsZero(x) \/ IsZero(y)
    THEN (IF x.kind = "inf" \/ y.kind = "inf" THEN FNan ELSE FZero(FSign(x) * FSign(y)))
  ELSE IF x.kind = "rat" /\ y.kind = "rat" THEN FMulRat(x.num, x.den, y.num, y.den)
  ELSE IF x.kind = "inf" \/ y.kind = "inf" THEN FInf(FSign(x) * FSign(y))
  ELSE IF x.kind = "rat" /\ Abs(x.num) < x.den THEN FLost
  ELSE IF y.kind = "rat" /\ Abs(y.num) < y.den THEN FLost
  ELSE FBig(FSign(x) * FSign(y))

\* 1.0 / y for a y that is a rational other than 0.
FRecip(y) == [kind |-> "rat", num |-> Sign(y.num) * y.den, den |-> Abs(y.num)]

\* x / y
FDiv(x, y) ==
  IF x.kind = "nan" \/ y.kind = "nan" THEN FNan
  ELSE IF x.kind = "lost" \/ y.kind = "lost" THEN FLost
  ELSE IF IsZero(y)
    THEN (IF IsZero(x) THEN FNan ELSE FInf(FSign(x) * FSign(y)))
  ELSE IF y.kind = "rat" THEN FMul(x, FRecip(y))
  ELSE IF x.kind = "inf" /\ y.kind = "inf" THEN FNan
  ELSE IF x.kind = "inf" THEN FInf(FSign(x) * FSign(y))
  ELSE IF y.kind = "inf" \/ IsZero(x) THEN FZero(FSign(x) * FSign(y))
  ELSE FLost

\* x < 0.0
FIsNegative(x) == x.kind \in {"rat", "inf", "big"} /\ x.num < 0

\* f64::max(x, 0.0): the other operand when one is NaN.
FMaxZero(x) == IF x.kind \in {"nan", "negzero"} \/ FIsNegative(x) THEN FInt(0) ELSE x

\* f64::floor
FFloor(x) == IF x.kind = "rat" THEN FInt(x.num \div x.den) ELSE x

\* x as i32 for an x without fraction: the cast saturates, and NaN gives 0.
FAsI32(x) ==
  IF x.kind = "nan" THEN 0
  ELSE IF x.kind \in {"inf", "big"} THEN (IF x.num < 0 THEN I32Min ELSE I32Max)
  ELSE IF x.kind = "rat" THEN x.num
  ELSE CHOOSE v \in {} : TRUE

IsDigits(s) == \A i \in 1..Len(s) : s[i] >= 48 /\ s[i] <= 57

\* 10^k for k in 0..9
Pow10(k) ==
  <<1, 10, 100, 1000, 10000, 100000, 1000000, 10000000, 100000000, 1000000000>>[k + 1]

\* The value of the decimal digits ip.fp with sign sg.
DecimalValue(sg, ip, fp, mag) ==
  IF mag = 0 THEN FZero(sg)
  ELSE IF mag < 0 THEN (IF fp = <<>> THEN FBig(sg) ELSE FLost)
  ELSE IF Len(fp) > 9 THEN FLost
  ELSE FRat(sg * mag, Pow10(Len(fp)))

\* A number without exponent: digits, at most one point, at least one digit.
DecimalOf(sg, mant, dot) ==
  LET ip == IF dot = 0 THEN mant ELSE SubSeq(mant, 1, dot - 1)
      fp == IF dot = 0 THEN <<>> ELSE SubSeq(mant, dot + 1, Len(mant))
  IN  IF ~IsDigits(ip) \/ ~IsDigits(fp) \/ ip \o fp = <<>> THEN None
      ELSE Some(DecimalValue(sg, ip, fp, DigitsValue(ip \o fp, 1, 0)))

\* A number with an exponent: Err unless mantissa and exponent are well
\* formed; the value of a well-formed one is outside the model.
ExponentOf(sg, mant, exp) ==
  IF DecimalOf(sg, mant, FindByte(mant, 46, 1)) = None THEN None
  ELSE IF exp = <<>> THEN None
  ELSE IF ~IsDigits(IF exp[1] \in {43, 45} THEN Tail(exp) ELSE exp) THEN None
  ELSE IF (IF exp[1] \in {43, 45} THEN Tail(exp) ELSE exp) = <<>> THEN None
  ELSE Some(FLost)

\* The unsigned part of an f64 literal: inf, infinity, nan (any case), or a
\* decimal number.
UnsignedF64(sg, body, epos) ==
  IF to_ascii_lowercase(body) \in {<<105, 110, 102>>,
                                   <<105, 110, 102, 105, 110, 105, 116, 121>>}
    THEN Some(FInf(sg))
  ELSE IF to_ascii_lowercase(body) = <<110, 97, 110>> THEN Some(FNan)
  ELSE IF epos = 0 THEN DecimalOf(sg, body, FindByte(body, 46, 1))
  ELSE ExponentOf(sg, SubSeq(body, 1, epos - 1), SubSeq(body, epos + 1, Len(body)))

\* The position of the first e or E of s, 0 when there is none.
FindExponent(s) ==
  IF \A i \in 1..Len(s) : s[i] \notin {69, 101} THEN 0
  ELSE CHOOSE i \in 1..Len(s) :
         s[i] \in {69, 101} /\ \A j \in 1..(i - 1) : s[j] \notin {69, 101}

\* str::parse::<f64>: an optional sign, then the unsigned part; None for Err.
parse_f64(s) ==
  IF s = <<>> THEN None
  ELSE IF s[1] = 45 THEN UnsignedF64(-1, Tail(s), FindExponent(Tail(s)))
  ELSE IF s[1] = 43 THEN UnsignedF64(1, Tail(s), FindExponent(Tail(s)))
  ELSE UnsignedF64(1, s, FindExponent(s))

(***************************************************************************)
(* String literals of the source, as UTF-8 bytes.                          *)
(***************************************************************************)

\* 'General'
S_General == <<71, 101, 110, 101, 114, 97, 108>>
\* 'Editor'
S_Editor == <<69, 100, 105, 116, 111, 114>>
\* 'Metadata'
S_Metadata == <<77, 101, 116, 97, 100, 97, 116, 97>>
\* 'Difficulty'
S_Difficulty == <<68, 105, 102, 102, 105, 99, 117, 108, 116, 121>>
\* 'Events'
S_Events == <<69, 118, 101, 110, 116, 115>>
\* 'TimingPoints'
S_TimingPoints == <<84, 105, 109, 105, 110, 103, 80, 111, 105, 110, 116, 115>>
\* 'HitObjects'
S_HitObjects == <<72, 105, 116, 79, 98, 106, 101, 99, 116, 115>>
\* 'Title'
S_Title == <<84, 105, 116, 108, 101>>
\* 'Artist'
S_Artist == <<65, 114, 116, 105, 115, 116>>
\* 'Creator'
S_Creator == <<67, 114, 101, 97, 116, 111, 114>>
\* 'Version'
S_Version == <<86, 101, 114, 115, 105, 111, 110>>
\* 'BeatmapSetID'
S_BeatmapSetID == <<66, 101, 97, 116, 109, 97, 112, 83, 101, 116, 73, 68>>
\* 'AudioFilename'
S_AudioFilename == <<65, 117, 100, 105, 111, 70, 105, 108, 101, 110, 97, 109, 101>>
\* 'PreviewTime'
S_PreviewTime == <<80, 114, 101, 118, 105, 101, 119, 84, 105, 109, 101>>
\* 'Mode'
S_Mode == <<77, 111, 100, 101>>
\* 'SliderMultiplier'
S_SliderMultiplier ==
  <<83, 108, 105, 100, 101, 114, 77, 117, 108, 116, 105, 112, 108, 105, 101, 114>>
\* 'Bookmarks'
S_Bookmarks == <<66, 111, 111, 107, 109, 97, 114, 107, 115>>
\* 'Break'
S_Break == <<66, 114, 101, 97, 107>>
\* 'Unknown Title'
S_UnknownTitle == <<85, 110, 107, 110, 111, 119, 110, 32, 84, 105, 116, 108, 101>>
\* 'Unknown Artist'
S_UnknownArtist == <<85, 110, 107, 110, 111, 119, 110, 32, 65, 114, 116, 105, 115, 116>>
\* 'Unknown Creator'
S_UnknownCreator == <<85, 110, 107, 110, 111, 119, 110, 32, 67, 114, 101, 97, 116, 111, 114>>
\* 'Unknown Version'
S_UnknownVersion == <<85, 110, 107, 110, 111, 119, 110, 32, 86, 101, 114, 115, 105, 111, 110>>
\* 'Unknown'
S_Unknown == <<85, 110, 107, 110, 111, 119, 110>>
\* 'https://osu.ppy.sh/beatmapsets/'
S_BeatmapsetUrl == <<104, 116, 116, 112, 115, 58, 47, 47, 111, 115, 117, 46, 112, 112, 121, 46, 115, 104, 47, 98, 101, 97, 116, 109, 97, 112, 115, 101, 116, 115, 47>>
\* '.jpg'
S_DotJpg == <<46, 106, 112, 103>>
\* '.png'
S_DotPng == <<46, 112, 110, 103>>
\* '.gif'
S_DotGif == <<46, 103, 105, 102>>
\* '.bmp'
S_DotBmp == <<46, 98, 109, 112>>
\* '.jpeg'
S_DotJpeg == <<46, 106, 112, 101, 103>>
\* '.webp'
S_DotWebp == <<46, 119, 101, 98, 112>>

(***************************************************************************)
(* The parser.                                                             *)
(***************************************************************************)

\* memchr_comma: 0-based position of the first comma at or after the 0-based
\* position start; None when there is none.
memchr_comma(bytes, start) ==
  LET i == FindByte(bytes, 44, start + 1)
  IN  IF i = 0 THEN None ELSE Some(i - 1)

\* csv_field: the n-th comma-separated field (n from 0), None when the line
\* has fewer fields.
RECURSIVE CsvFieldStart(_, _, _)
CsvFieldStart(line, n, start) ==
  IF n = 0 THEN Some(start)
  ELSE LET pos == memchr_comma(line, start)
       IN  IF IsSome(pos) THEN CsvFieldStart(line, n - 1, Unwrap(pos) + 1) ELSE None

csv_field(line, n) ==
  LET st == CsvFieldStart(line, n, 0)
  IN  IF ~IsSome(st) THEN None
      ELSE LET start == Unwrap(st)
               e     == memchr_comma(line, start)
               end   == IF IsSome(e) THEN Unwrap(e) ELSE Len(line)
           IN  Some(SubSeq(line, start + 1, end))

\* Option::unwrap_or
unwrap_or(o, d) == IF IsSome(o) THEN Unwrap(o) ELSE d

csv_field_count(line) ==
  IF line = <<>> THEN 0
  ELSE Cardinality({i \in 1..Len(line) : line[i] = 44}) + 1

eq_ascii_ci(a, b) ==
  /\ Len(a) = Len(b)
  /\ \A i \in 1..Len(a) : ByteLower(a[i]) = ByteLower(b[i])

\* is_image_ext slices the last 4 and, for 5 bytes or more, the last 5 bytes
\* of s before it compares anything: a slice that starts inside a multi-byte
\* character panics.
is_image_ext_panics(s) ==
  LET len == Len(s)
  IN  /\ len >= 4
      /\ \/ ~is_char_boundary(s, len - 4)
         \/ len >= 5 /\ ~is_char_boundary(s, len - 5)

\* The value of is_image_ext where it does not panic.
is_image_ext(s) ==
  LET len   == Len(s)
      last4 == SubSeq(s, len - 3, len)
      last5 == IF len >= 5 THEN SubSeq(s, len - 4, len) ELSE <<>>
  IN  /\ len >= 4
      /\ \/ eq_ascii_ci(last4, S_DotJpg) \/ eq_ascii_ci(last4, S_DotPng)
         \/ eq_ascii_ci(last4, S_DotGif) \/ eq_ascii_ci(last4, S_DotBmp)
         \/ eq_ascii_ci(last5, S_DotJpeg) \/ eq_ascii_ci(last5, S_DotWebp)

\* OsuSection::from_header
\* A header match that compares the names as written.
from_header_exact(header) ==
  IF header = S_General THEN "General"
  ELSE IF header = S_Editor THEN "Editor"
  ELSE IF header = S_Metadata THEN "Metadata"
  ELSE IF header = S_Difficulty THEN "Difficulty"
  ELSE IF header = S_Events THEN "Events"
  ELSE IF header = S_TimingPoints THEN "TimingPoints"
  ELSE IF header = S_HitObjects THEN "HitObjects"
  ELSE "Other"

from_header(header) ==
  IF eq_ascii_ci(header, S_General) THEN "General"
  ELSE IF eq_ascii_ci(header, S_Editor) THEN "Editor"
  ELSE IF eq_ascii_ci(header, S_Metadata) THEN "Metadata"
  ELSE IF eq_ascii_ci(header, S_Difficulty) THEN "Difficulty"
  ELSE IF eq_ascii_ci(header, S_Events) THEN "Events"
  ELSE IF eq_ascii_ci(header, S_TimingPoints) THEN "TimingPoints"
  ELSE IF eq_ascii_ci(header, S_HitObjects) THEN "HitObjects"
  ELSE "Other"

\* i32::clamp
clamp(v, lo, hi) == IF v < lo THEN lo ELSE IF v > hi THEN hi ELSE v

\* A normalization that returns the metadata as parsed.
normalize_metadata_skipped(metadata) == metadata

normalize_metadata(metadata) ==
  [metadata EXCEPT
     !.title          = IF @ = <<>> THEN S_UnknownTitle ELSE @,
     !.artist         = IF @ = <<>> THEN S_UnknownArtist ELSE @,
     !.creator        = IF @ = <<>> THEN S_UnknownCreator ELSE @,
     !.version        = IF @ = <<>> THEN S_UnknownVersion ELSE @,
     !.beatmap_set_id = IF @ = <<>> THEN S_Unknown ELSE @,
     !.mode           = clamp(@, 0, 3)]

\* ParsedMetadata { preview_time: -1, star_rating: -1.0, ..Default::default() }
DefaultMetadata ==
  [title |-> <<>>, artist |-> <<>>, creator |-> <<>>, version |-> <<>>,
   mode |-> 0, audio |-> <<>>, background |-> <<>>, beatmap_set_id |-> <<>>,
   preview_time |-> -1, star_rating |-> -1]

\* The locals of parse_osu_content before the first line; panicked records
\* that the parse unwound instead of returning.  active is the pair
\* (active_beat, active_sv) of the last slider, as its loop over the timing
\* points left it (its value before the first slider is not read).
\* overflow_checks is the
\* build's setting for integer overflow: a panic when TRUE (the default of a
\* debug build), wrapping when FALSE (the default of a release build).
ParseStart ==
  [section |-> "None", metadata |-> DefaultMetadata, break_periods |-> <<>>,
   bookmarks |-> <<>>, hit_starts |-> <<>>, hit_ends |-> <<>>,
   slider_multiplier |-> FInt(1), timing_points |-> <<>>, hit_types |-> <<>>,
   active |-> [active_beat |-> FInt(500), active_sv |-> FInt(1)],
   overflow_checks |-> FALSE, panicked |-> FALSE]

\* The BeatmapSetID value: the canonical URL for a positive integer, the raw
\* value otherwise.
beatmap_set_id_of(value, id) ==
  IF IsSome(id) /\ Unwrap(id) > 0 THEN S_BeatmapsetUrl \o NatDigits(Unwrap(id)) ELSE value

\* A `key: value` line of the Metadata section, key and value trimmed.
MetadataKeyValue(st, key, value) ==
  IF eq_ascii_ci(key, S_Title) THEN [st EXCEPT !.metadata.title = value]
  ELSE IF eq_ascii_ci(key, S_Artist) THEN [st EXCEPT !.metadata.artist = value]
  ELSE IF eq_ascii_ci(key, S_Creator) THEN [st EXCEPT !.metadata.creator = value]
  ELSE IF eq_ascii_ci(key, S_Version) THEN [st EXCEPT !.metadata.version = value]
  ELSE IF eq_ascii_ci(key, S_BeatmapSetID)
    THEN [st EXCEPT !.metadata.beatmap_set_id = beatmap_set_id_of(value, parse_i32(value))]
  ELSE st

\* A line of the Metadata section, kv its split at the first colon.
MetadataLine(st, kv) ==
  IF IsSome(kv) THEN MetadataKeyValue(st, trim(Unwrap(kv)[1]), trim(Unwrap(kv)[2])) ELSE st

\* A `key: value` line of the General section, key and value trimmed, v the
\* value parsed as i32.
GeneralKeyValue(st, key, value, v) ==
  IF eq_ascii_ci(key, S_AudioFilename) THEN [st EXCEPT !.metadata.audio = value]
  ELSE IF eq_ascii_ci(key, S_PreviewTime) /\ IsSome(v)
    THEN [st EXCEPT !.metadata.preview_time = Unwrap(v)]
  ELSE IF eq_ascii_ci(key, S_PreviewTime) THEN st
  ELSE IF eq_ascii_ci(key, S_Mode) /\ IsSome(v) THEN [st EXCEPT !.metadata.mode = Unwrap(v)]
  ELSE st

\* A line of the General section, kv its split at the first colon.
GeneralLine(st, kv) ==
  IF IsSome(kv)
    THEN GeneralKeyValue(st, trim(Unwrap(kv)[1]), trim(Unwrap(kv)[2]),
                         parse_i32(trim(Unwrap(kv)[2])))
    ELSE st

\* The break period of an Events line whose first field is 2 or Break, kept
\* when start >= 0 and end > start.
EventBreak(st, start, end) ==
  IF start >= 0 /\ end > start
    THEN [st EXCEPT !.break_periods = Append(@, [start |-> start, end |-> end])]
    ELSE st

\* The background of an Events line whose first field is 0, while none is set:
\* candidate is the third field, trimmed and quote-stripped.
EventBackground(st, candidate) ==
  IF st.metadata.background # <<>> THEN st
  ELSE IF is_image_ext_panics(candidate) THEN [st EXCEPT !.panicked = TRUE]
  ELSE IF is_image_ext(candidate) THEN [st EXCEPT !.metadata.background = candidate]
  ELSE st

\* An Events line of at least 3 fields: f0, f1, f2 its first three fields,
\* trimmed.
EventFields(st, f0, f1, f2) ==
  IF f0 = <<50>> \/ eq_ascii_ci(f0, S_Break)
    THEN EventBreak(st, unwrap_or(parse_i32(f1), -1), unwrap_or(parse_i32(f2), -1))
  ELSE IF f0 = <<48>> THEN EventBackground(st, trim_matches_quote(f2))
  ELSE st

\* A line of the Events section.
EventsLine(st, trimmed) ==
  IF csv_field_count(trimmed) < 3 THEN st
  ELSE EventFields(st, trim(unwrap_or(csv_field(trimmed, 0), <<>>)),
                       trim(unwrap_or(csv_field(trimmed, 1), <<>>)),
                       trim(unwrap_or(csv_field(trimmed, 2), <<>>)))

\* chunk.trim().parse::<i32>().ok() of one piece of the Bookmarks value.
bookmark_of(v) == IF IsSome(v) THEN <<Unwrap(v)>> ELSE <<>>

\* value.split(',').filter_map(|chunk| chunk.trim().parse::<i32>().ok())
RECURSIVE ParseBookmarks(_)
ParseBookmarks(chunks) ==
  IF chunks = <<>> THEN <<>>
  ELSE bookmark_of(parse_i32(trim(Head(chunks)))) \o ParseBookmarks(Tail(chunks))

\* A line of the Editor section, kv its split at the first colon.
EditorLine(st, kv) ==
  IF IsSome(kv) /\ eq_ascii_ci(trim(Unwrap(kv)[1]), S_Bookmarks)
    THEN [st EXCEPT !.bookmarks = ParseBookmarks(split(Unwrap(kv)[2], 44))]
    ELSE st

\* A line of the Difficulty section, kv its split at the first colon.
DifficultyLine(st, kv) ==
  IF IsSome(kv) /\ eq_ascii_ci(trim(Unwrap(kv)[1]), S_SliderMultiplier)
    THEN [st EXCEPT !.slider_multiplier =
                      unwrap_or(parse_f64(trim(Unwrap(kv)[2])), FInt(1))]
    ELSE st

\* A flag that is true whatever the line holds.
uninherited_always(trimmed, field_count) == TRUE

\* The uninherited flag of a timing point line of field_count fields.
uninherited_of(trimmed, field_count) ==
  IF field_count >= 7
    THEN (IF IsSome(csv_field(trimmed, 6))
            THEN trim(Unwrap(csv_field(trimmed, 6))) = <<49>> ELSE TRUE)
    ELSE TRUE

\* A line of the TimingPoints section.
TimingPointsLine(st, trimmed) ==
  IF csv_field_count(trimmed) < 2 THEN st
  ELSE [st EXCEPT !.timing_points = Append(@,
          [time        |-> unwrap_or(parse_i32(trim(unwrap_or(csv_field(trimmed, 0), <<48>>))), 0),
           beat_length |-> unwrap_or(parse_f64(trim(unwrap_or(csv_field(trimmed, 1),
                                                              <<53, 48, 48>>))), FInt(500)),
           uninherited |-> uninherited_of(trimmed, csv_field_count(trimmed))])]

\* A loop that passes over the points later than start_time and goes on.
RECURSIVE ActiveTimingNoBreak(_, _, _)
ActiveTimingNoBreak(tps, start_time, act) ==
  IF tps = <<>> THEN act
  ELSE IF Head(tps).time > start_time THEN ActiveTimingNoBreak(Tail(tps), start_time, act)
  ELSE IF Head(tps).uninherited
    THEN ActiveTimingNoBreak(Tail(tps), start_time,
                             [active_beat |-> Head(tps).beat_length, active_sv |-> FInt(1)])
  ELSE IF FIsNegative(Head(tps).beat_length)
    THEN ActiveTimingNoBreak(Tail(tps), start_time,
                             [act EXCEPT !.active_sv = FDiv(FInt(-100), Head(tps).beat_length)])
  ELSE ActiveTimingNoBreak(Tail(tps), start_time, act)

\* The loop over timing_points of a slider that starts at start_time: act is
\* (active_beat, active_sv), and the first point after start_time ends it.
RECURSIVE ActiveTiming(_, _, _)
ActiveTiming(tps, start_time, act) ==
  IF tps = <<>> THEN act
  ELSE IF Head(tps).time > start_time THEN act
  ELSE IF Head(tps).uninherited
    THEN ActiveTiming(Tail(tps), start_time,
                      [active_beat |-> Head(tps).beat_length, active_sv |-> FInt(1)])
  ELSE IF FIsNegative(Head(tps).beat_length)
    THEN ActiveTiming(Tail(tps), start_time,
                      [act EXCEPT !.active_sv = FDiv(FInt(-100), Head(tps).beat_length)])
  ELSE ActiveTiming(Tail(tps), start_time, act)

\* (length / (slider_multiplier * 100.0 * active_sv)) * active_beat * slides
slider_duration(length, slider_multiplier, active_sv, active_beat, slides) ==
  FMul(FMul(FDiv(length, FMul(FMul(slider_multiplier, FInt(100)), active_sv)),
            active_beat),
       slides)

\* a + b leaves the 32-bit range.
add_overflows(a, b) ==
  \/ b > 0 /\ a > I32Max - b
  \/ b < 0 /\ a < I32Min - b

\* i32::wrapping_add
wrapping_add(a, b) ==
  IF b > 0 /\ a > I32Max - b THEN I32Min + ((a - (I32Max - b)) - 1)
  ELSE IF b < 0 /\ a < I32Min - b THEN I32Max - (((I32Min - b) - a) - 1)
  ELSE a + b

\* start_time + duration.max(0.0).floor() as i32, d the cast value: None when
\* the addition panics.
SliderEndOf(st, start_time, d) ==
  IF add_overflows(start_time, d) /\ st.overflow_checks THEN None
  ELSE Some(wrapping_add(start_time, d))

\* The end of a slider line of at least 8 fields, act its active timing.
SliderEnd(st, trimmed, start_time, act) ==
  SliderEndOf(st, start_time,
    FAsI32(FFloor(FMaxZero(slider_duration(
      unwrap_or(parse_f64(trim(unwrap_or(csv_field(trimmed, 7), <<48>>))), FInt(0)),
      st.slider_multiplier, act.active_sv, act.active_beat,
      unwrap_or(parse_f64(trim(unwrap_or(csv_field(trimmed, 6), <<49>>))), FInt(1)))))))

\* end_time of a hit object line before the final max: None when computing
\* it panics.
HitEnd(st, trimmed, field_count, start_time, obj_type) ==
  IF obj_type % 4 >= 2
    THEN (IF field_count >= 8
            THEN SliderEnd(st, trimmed, start_time,
                           ActiveTiming(st.timing_points, start_time,
                                        [active_beat |-> FInt(500), active_sv |-> FInt(1)]))
            ELSE Some(start_time))
  ELSE IF obj_type % 16 >= 8
    THEN (IF field_count >= 6
            THEN Some(unwrap_or(parse_i32(trim(unwrap_or(csv_field(trimmed, 5), <<>>))),
                                start_time))
            ELSE Some(start_time))
  ELSE IF obj_type % 256 >= 128
    THEN (IF field_count >= 6
            THEN Some(unwrap_or(parse_i32(trim(Head(split(unwrap_or(csv_field(trimmed, 5),
                                                                    <<>>), 58)))),
                                start_time))
            ELSE Some(start_time))
  ELSE Some(start_time)

\* Ends that are left as they were recorded.
raise_prev_end_never(hit_ends, hit_types, start_time) == hit_ends

\* hit_ends after the end of a preceding slider is raised to start_time.
raise_prev_end(hit_ends, hit_types, start_time) ==
  IF hit_types # <<>> /\ hit_types[Len(hit_types)] % 4 >= 2
     /\ hit_ends # <<>> /\ hit_ends[Len(hit_ends)] < start_time
    THEN [hit_ends EXCEPT ![Len(hit_ends)] = start_time]
    ELSE hit_ends

\* Pushes that record end_time as computed, without the final max.
PushHitUnclamped(st, start_time, end_time, obj_type) ==
  [st EXCEPT !.hit_starts = Append(@, start_time),
             !.hit_ends   = Append(raise_prev_end(st.hit_ends, st.hit_types, start_time),
                                   end_time),
             !.hit_types  = Append(@, obj_type)]

\* The three pushes that end an accepted hit object line.
PushHit(st, start_time, end_time, obj_type) ==
  [st EXCEPT !.hit_starts = Append(@, start_time),
             !.hit_ends   = Append(raise_prev_end(st.hit_ends, st.hit_types, start_time),
                                   Max(end_time, start_time)),
             !.hit_types  = Append(@, obj_type)]

\* A hit object line of at least 4 fields.
HitObject(st, start_time, end_time, obj_type) ==
  IF IsSome(end_time) THEN PushHit(st, start_time, Unwrap(end_time), obj_type)
  ELSE [st EXCEPT !.panicked = TRUE]

\* st with (active_beat, active_sv) as a slider line of at least 8 fields
\* leaves them; any other line has no such locals.
TempoAt(st, trimmed, start_time, obj_type) ==
  IF obj_type % 4 >= 2 /\ csv_field_count(trimmed) >= 8
    THEN [st EXCEPT !.active =
            ActiveTiming(st.timing_points, start_time,
                         [active_beat |-> FInt(500), active_sv |-> FInt(1)])]
    ELSE st

\* A hit object line of at least 4 fields whose start and type are parsed.
HitFields(st, trimmed, start_time, obj_type) ==
  HitObject(TempoAt(st, trimmed, start_time, obj_type), start_time,
            HitEnd(st, trimmed, csv_field_count(trimmed), start_time, obj_type),
            obj_type)

\* A line of the HitObjects section.
HitObjectsLine(st, trimmed) ==
  IF csv_field_count(trimmed) < 4 THEN st
  ELSE HitFields(st, trimmed,
                 unwrap_or(parse_i32(trim(unwrap_or(csv_field(trimmed, 2), <<48>>))), 0),
                 unwrap_or(parse_i32(trim(unwrap_or(csv_field(trimmed, 3), <<48>>))), 0))

\* The body of the loop of parse_osu_content for one line, trimmed.
ParseTrimmed(st, trimmed, len) ==
  IF trimmed = <<>> THEN st
  ELSE IF len >= 2 /\ trimmed[1] = 47 /\ trimmed[2] = 47 THEN st
  ELSE IF trimmed[1] = 91 /\ trimmed[len] = 93
    THEN [st EXCEPT !.section = from_header(SubSeq(trimmed, 2, len - 1))]
  ELSE IF st.section = "Metadata" THEN MetadataLine(st, split_once_colon(trimmed))
  ELSE IF st.section = "General" THEN GeneralLine(st, split_once_colon(trimmed))
  ELSE IF st.section = "Events" THEN EventsLine(st, trimmed)
  ELSE IF st.section = "Editor" THEN EditorLine(st, split_once_colon(trimmed))
  ELSE IF st.section = "Difficulty" THEN DifficultyLine(st, split_once_colon(trimmed))
  ELSE IF st.section = "TimingPoints" THEN TimingPointsLine(st, trimmed)
  ELSE IF st.section = "HitObjects" THEN HitObjectsLine(st, trimmed)
  ELSE st

ParseLine(st, line) == ParseTrimmed(st, trim(line), Len(trim(line)))

\* The loop over content.lines(); a panic ends it.
RECURSIVE ParseLines(_, _)
ParseLines(st, ls) ==
  IF ls = <<>> \/ st.panicked THEN st
  ELSE ParseLines(ParseLine(st, Head(ls)), Tail(ls))

\* The ParsedOsu built from the locals after the last line.
ParsedOsu(st) ==
  [panicked      |-> st.panicked,
   metadata      |-> normalize_metadata(st.metadata),
   hit_starts    |-> st.hit_starts,
   hit_ends      |-> st.hit_ends,
   break_periods |-> st.break_periods,
   bookmarks     |-> st.bookmarks]

\* parse_osu_content: the ParsedOsu it returns, or panicked = TRUE when it
\* unwinds (the other fields then mean nothing).
parse_osu_content(content) == ParsedOsu(ParseLines(ParseStart, lines(content)))

\* A `key: value` line met in the Metadata section by the header parser; its
\* break follows once creator and version are both non-empty.
HeaderKeyValue(h, key, value) ==
  IF eq_ascii_ci(key, S_Creator)
    THEN [h EXCEPT !.creator = value, !.stop = value # <<>> /\ h.version # <<>>]
  ELSE IF eq_ascii_ci(key, S_Version)
    THEN [h EXCEPT !.version = value, !.stop = h.creator # <<>> /\ value # <<>>]
  ELSE [h EXCEPT !.stop = h.creator # <<>> /\ h.version # <<>>]

\* A section header met by the header parser.
HeaderSection(h, in_metadata) ==
  [h EXCEPT !.in_metadata = in_metadata,
            !.stop = ~in_metadata /\ h.creator # <<>> /\ h.version # <<>>]

\* A line met in the Metadata section by the header parser, kv its split at
\* the first colon.
HeaderMetadataLine(h, kv) ==
  IF IsSome(kv) THEN HeaderKeyValue(h, trim(Unwrap(kv)[1]), trim(Unwrap(kv)[2])) ELSE h

\* The body of the loop of parse_header_creator_and_version for one line,
\* trimmed; stop = TRUE is its break.
HeaderTrimmed(h, trimmed, len) ==
  IF trimmed = <<>> THEN h
  ELSE IF len >= 2 /\ trimmed[1] = 47 /\ trimmed[2] = 47 THEN h
  ELSE IF trimmed[1] = 91 /\ trimmed[len] = 93
    THEN HeaderSection(h, eq_ascii_ci(SubSeq(trimmed, 2, len - 1), S_Metadata))
  ELSE IF h.in_metadata THEN HeaderMetadataLine(h, split_once_colon(trimmed))
  ELSE h

HeaderLine(h, line) == HeaderTrimmed(h, trim(line), Len(trim(line)))

RECURSIVE HeaderLines(_, _)
HeaderLines(h, ls) ==
  IF ls = <<>> \/ h.stop THEN h
  ELSE HeaderLines(HeaderLine(h, Head(ls)), Tail(ls))

\* The locals of parse_header_creator_and_version before the first line.
HeaderStart == [in_metadata |-> FALSE, creator |-> <<>>, version |-> <<>>, stop |-> FALSE]

\* The pair (creator, version) returned after the loop.
HeaderResult(h) == [creator |-> h.creator, version |-> h.version]

\* parse_header_creator_and_version
parse_header_creator_and_version(content) ==
  HeaderResult(HeaderLines(HeaderStart, lines(content)))

(***************************************************************************)
(* The file system the scan reads, and the inputs of a scan.               *)
(***************************************************************************)

\* [Metadata] / Title:Song / Creator:BlueDragon / Version:Insane
BytesDragon ==
  <<91, 77, 101, 116, 97, 100, 97, 116, 97, 93, 10, 84, 105, 116, 108, 101,
  58, 83, 111, 110, 103, 10, 67, 114, 101, 97, 116, 111, 114, 58, 66, 108,
  117, 101, 68, 114, 97, 103, 111, 110, 10, 86, 101, 114, 115, 105, 111,
  110, 58, 73, 110, 115, 97, 110, 101, 10>>

\* CRLF lines: [General] / Mode: 7 / [Metadata] / Creator: peppy / Version: Hard /
\* [Events] / 0,0,"bg.JPG",0,0 / 2,100,200
BytesPeppy ==
  <<91, 71, 101, 110, 101, 114, 97, 108, 93, 13, 10, 77, 111, 100, 101, 58,
  32, 55, 13, 10, 91, 77, 101, 116, 97, 100, 97, 116, 97, 93, 13, 10, 67,
  114, 101, 97, 116, 111, 114, 58, 32, 112, 101, 112, 112, 121, 13, 10, 86,
  101, 114, 115, 105, 111, 110, 58, 32, 72, 97, 114, 100, 13, 10, 91, 69,
  118, 101, 110, 116, 115, 93, 13, 10, 48, 44, 48, 44, 34, 98, 103, 46, 74,
  80, 71, 34, 44, 48, 44, 48, 13, 10, 50, 44, 49, 48, 48, 44, 50, 48, 48,
  13, 10>>

\* [Metadata] / Creator:BlueDragon / Version:Insane / Title:<byte FF>, which is
\* not UTF-8
BytesBadUtf8 ==
  <<91, 77, 101, 116, 97, 100, 97, 116, 97, 93, 10, 67, 114, 101, 97, 116,
  111, 114, 58, 66, 108, 117, 101, 68, 114, 97, 103, 111, 110, 10, 86, 101,
  114, 115, 105, 111, 110, 58, 73, 110, 115, 97, 110, 101, 10, 84, 105, 116,
  108, 101, 58, 255, 10>>

\* [Metadata] / Creator:BlueDragon / Version:Insane / [Events] / 0,0,"<U+65E5><U+672C>.jpg":
\* a background name of two 3-byte characters and .jpg
BytesKanjiBg ==
  <<91, 77, 101, 116, 97, 100, 97, 116, 97, 93, 10, 67, 114, 101, 97, 116,
  111, 114, 58, 66, 108, 117, 101, 68, 114, 97, 103, 111, 110, 10, 86, 101,
  114, 115, 105, 111, 110, 58, 73, 110, 115, 97, 110, 101, 10, 91, 69, 118,
  101, 110, 116, 115, 93, 10, 48, 44, 48, 44, 34, 230, 151, 165, 230, 156,
  172, 46, 106, 112, 103, 34, 10>>

\* ' Dragon,'
FilterDragon ==
  <<32, 68, 114, 97, 103, 111, 110, 44>>

\* 'unknown'
FilterUnknown ==
  <<117, 110, 107, 110, 111, 119, 110>>

\* 'osu'
S_osu ==
  <<111, 115, 117>>

\* 'OSU'
ExtOsuUpper ==
  <<79, 83, 85>>

\* 'txt'
ExtTxt ==
  <<116, 120, 116>>


\* The regular files a directory of the model can hold: whether File::open
\* succeeds, and the bytes of the file.
Disk ==
  << [open_ok |-> TRUE,  bytes |-> BytesDragon],
     [open_ok |-> TRUE,  bytes |-> BytesPeppy],
     [open_ok |-> TRUE,  bytes |-> <<>>],
     [open_ok |-> TRUE,  bytes |-> BytesBadUtf8],
     [open_ok |-> TRUE,  bytes |-> BytesKanjiBg],
     [open_ok |-> FALSE, bytes |-> <<>>] >>

\* What WalkDir can yield for one entry, the path and the modification time
\* left out: whether the walk read the entry, whether it is a regular file,
\* the extension of its path, whether its modification time can be read, and
\* the file of Disk behind it.
EntryTemplates ==
  << [walk_ok |-> TRUE, is_file |-> TRUE, extension |-> Some(S_osu),       has_mtime |-> TRUE,  file |-> 1],
     [walk_ok |-> TRUE, is_file |-> TRUE, extension |-> Some(ExtOsuUpper), has_mtime |-> TRUE,  file |-> 2],
     [walk_ok |-> TRUE, is_file |-> TRUE, extension |-> Some(S_osu),       has_mtime |-> TRUE,  file |-> 3],
     [walk_ok |-> TRUE, is_file |-> TRUE, extension |-> Some(S_osu),       has_mtime |-> TRUE,  file |-> 4],
     [walk_ok |-> TRUE, is_file |-> TRUE, extension |-> Some(S_osu),       has_mtime |-> TRUE,  file |-> 5],
     [walk_ok |-> TRUE, is_file |-> TRUE, extension |-> Some(S_osu),       has_mtime |-> TRUE,  file |-> 6],
     [walk_ok |-> TRUE, is_file |-> TRUE, extension |-> Some(S_osu),       has_mtime |-> FALSE, file |-> 1],
     [walk_ok |-> TRUE, is_file |-> TRUE, extension |-> Some(ExtTxt),      has_mtime |-> TRUE,  file |-> 1] >>

\* The largest number of entries of a directory whose entries are chosen
\* freely among EntryTemplates.
MaxEntries == 2

\* The number of entries of the large directory, enough for a worker's chunk
\* to exceed one batch.
BigEntries == 201

\* The modification time of the i-th entry, in quarter milliseconds.
MtimeOf(i) == 1000 + 8 * i

\* The directory whose i-th entry, in traversal order, follows template ts[i].
\* A path is a number that stands for the path string, ordered as the strings
\* are; the traversal yields the paths in descending order.
TreeOf(ts) ==
  [i \in 1..Len(ts) |->
     [path      |-> Len(ts) + 1 - i,
      walk_ok   |-> EntryTemplates[ts[i]].walk_ok,
      is_file   |-> EntryTemplates[ts[i]].is_file,
      extension |-> EntryTemplates[ts[i]].extension,
      modified  |-> IF EntryTemplates[ts[i]].has_mtime THEN Some(MtimeOf(i)) ELSE None,
      file      |-> EntryTemplates[ts[i]].file]]

\* The template choices of the large directory: empty .osu files first, one
\* more than a batch holds, then files that cannot be opened, and an empty
\* .osu file last.
BigChoice(n, full) == [i \in 1..n |-> IF i <= full + 1 \/ i = n THEN 3 ELSE 6]

\* The template choices of a large directory whose first worker fills a batch
\* and then meets a file with a non-ASCII background name: as many empty .osu
\* files as a batch holds, then that file, then files that cannot be opened.
PanicChoice(n, full) == [i \in 1..n |-> IF i <= full THEN 3 ELSE IF i = full + 1 THEN 5 ELSE 6]

\* The template choices of the directory of five entries that two cores split
\* into chunks of two: a file with a creator, then one with a non-ASCII
\* background name, then files that cannot be opened, and an empty file last.
MidChoice == <<1, 5, 6, 6, 3>>

\* The template choices of the small directories: every multiset of at most
\* MaxEntries templates, listed in ascending order.
SmallChoices ==
  UNION {{ts \in [1..n -> 1..Len(EntryTemplates)] :
            \A i \in 1..(n - 1) : ts[i] <= ts[i + 1]} : n \in 0..MaxEntries}

\* The caches a caller can pass for a directory t: none, one that holds path 1
\* only, with a time a quarter millisecond before the file's, and one that
\* holds every path of the directory with a time that differs from the file's
\* by delta quarter milliseconds.
CacheDeltas == {-1, 2}

CachedTime(t, p, d) ==
  IF p \in 1..Len(t) THEN unwrap_or(t[Len(t) + 1 - p].modified, 0) + d ELSE d

CachesFor(t) ==
  {None, Some((1 :> CachedTime(t, 1, -1)))}
    \cup {Some([p \in {t[i].path : i \in 1..Len(t)} |-> CachedTime(t, p, d)]) :
            d \in CacheDeltas}

\* The mapper filters a caller can pass.
Filters == {None, Some(FilterDragon), Some(FilterUnknown)}

(***************************************************************************)
(* The texts a parse is run on, as sequences of lines.                     *)
(***************************************************************************)

\* '[Metadata]'
L_Metadata ==
  <<91, 77, 101, 116, 97, 100, 97, 116, 97, 93>>
\* '[General]'
L_General ==
  <<91, 71, 101, 110, 101, 114, 97, 108, 93>>
\* '[Events]'
L_Events ==
  <<91, 69, 118, 101, 110, 116, 115, 93>>
\* '[Difficulty]'
L_DifficultyHeader ==
  <<91, 68, 105, 102, 102, 105, 99, 117, 108, 116, 121, 93>>
\* '[TimingPoints]'
L_TimingPointsHeader ==
  <<91, 84, 105, 109, 105, 110, 103, 80, 111, 105, 110, 116, 115, 93>>
\* '[HitObjects]'
L_HitObjectsHeader ==
  <<91, 72, 105, 116, 79, 98, 106, 101, 99, 116, 115, 93>>
\* 'Title:Song'
L_Title ==
  <<84, 105, 116, 108, 101, 58, 83, 111, 110, 103>>
\* 'Title:'
L_TitleEmpty ==
  <<84, 105, 116, 108, 101, 58>>
\* 'Artist: Band'
L_Artist ==
  <<65, 114, 116, 105, 115, 116, 58, 32, 66, 97, 110, 100>>
\* 'Creator:BlueDragon'
L_Creator ==
  <<67, 114, 101, 97, 116, 111, 114, 58, 66, 108, 117, 101, 68, 114, 97, 103,
  111, 110>>
\* 'Creator:'
L_CreatorEmpty ==
  <<67, 114, 101, 97, 116, 111, 114, 58>>
\* 'Version:Insane'
L_Version ==
  <<86, 101, 114, 115, 105, 111, 110, 58, 73, 110, 115, 97, 110, 101>>
\* 'BeatmapSetID:123'
L_SetId ==
  <<66, 101, 97, 116, 109, 97, 112, 83, 101, 116, 73, 68, 58, 49, 50, 51>>
\* 'BeatmapSetID:-5'
L_SetIdNegative ==
  <<66, 101, 97, 116, 109, 97, 112, 83, 101, 116, 73, 68, 58, 45, 53>>
\* 'Mode: 2'
L_Mode2 ==
  <<77, 111, 100, 101, 58, 32, 50>>
\* 'Mode: 7'
L_Mode7 ==
  <<77, 111, 100, 101, 58, 32, 55>>
\* 'Mode:-1'
L_ModeNegative ==
  <<77, 111, 100, 101, 58, 45, 49>>
\* 'PreviewTime: 500'
L_PreviewTime ==
  <<80, 114, 101, 118, 105, 101, 119, 84, 105, 109, 101, 58, 32, 53, 48, 48>>
\* '0,0,"bg.jpg",0,0' : a background with an image extension
E_Jpg ==
  <<48, 44, 48, 44, 34, 98, 103, 46, 106, 112, 103, 34, 44, 48, 44, 48>>
\* '0,0,"two.png"' : a second image
E_Png ==
  <<48, 44, 48, 44, 34, 116, 119, 111, 46, 112, 110, 103, 34>>
\* '0,0,"notes.txt"' : a background candidate that is no image
E_Txt ==
  <<48, 44, 48, 44, 34, 110, 111, 116, 101, 115, 46, 116, 120, 116, 34>>
\* '0,0,"\u65e5\u672c.jpg"' : an image name of two 3-byte characters
E_Kanji ==
  <<48, 44, 48, 44, 34, 230, 151, 165, 230, 156, 172, 46, 106, 112, 103, 34>>
\* '2,100,200' : a break period
E_Break ==
  <<50, 44, 49, 48, 48, 44, 50, 48, 48>>
\* '0,0' : fewer than 3 fields
E_Short ==
  <<48, 44, 48>>
\* 'SliderMultiplier:1.4'
D_Sm14 ==
  <<83, 108, 105, 100, 101, 114, 77, 117, 108, 116, 105, 112, 108, 105, 101,
  114, 58, 49, 46, 52>>
\* 'SliderMultiplier: 0'
D_Sm0 ==
  <<83, 108, 105, 100, 101, 114, 77, 117, 108, 116, 105, 112, 108, 105, 101,
  114, 58, 32, 48>>
\* '0,500,4,2,0,100,1,0' : uninherited, beat length 500, at 0
T_Ta ==
  <<48, 44, 53, 48, 48, 44, 52, 44, 50, 44, 48, 44, 49, 48, 48, 44, 49, 44,
  48>>
\* '500,-50,4,2,0,100,0,0' : inherited, velocity 2, at 500
T_Tb ==
  <<53, 48, 48, 44, 45, 53, 48, 44, 52, 44, 50, 44, 48, 44, 49, 48, 48, 44,
  48, 44, 48>>
\* '2000,250' : two fields: uninherited, beat length 250, at 2000
T_Tc ==
  <<50, 48, 48, 48, 44, 50, 53, 48>>
\* '256,192,1000,1,0' : a circle at 1000
H_Circle ==
  <<50, 53, 54, 44, 49, 57, 50, 44, 49, 48, 48, 48, 44, 49, 44, 48>>
\* '100,100,1000,2,0,B|200:200,2,280' : a slider at 1000, 2 slides of length 280
H_Slider ==
  <<49, 48, 48, 44, 49, 48, 48, 44, 49, 48, 48, 48, 44, 50, 44, 48, 44, 66,
  124, 50, 48, 48, 58, 50, 48, 48, 44, 50, 44, 50, 56, 48>>
\* '100,100,200,2,0,L|150:100,1,14' : a slider at 200, 1 slide of length 14
H_SliderEarly ==
  <<49, 48, 48, 44, 49, 48, 48, 44, 50, 48, 48, 44, 50, 44, 48, 44, 76, 124,
  49, 53, 48, 58, 49, 48, 48, 44, 49, 44, 49, 52>>
\* '0,0,2000,2,0,L|1:1,99999999999,280' : a slider at 2000 with 99999999999 slides
H_SliderLong ==
  <<48, 44, 48, 44, 50, 48, 48, 48, 44, 50, 44, 48, 44, 76, 124, 49, 58, 49,
  44, 57, 57, 57, 57, 57, 57, 57, 57, 57, 57, 57, 44, 50, 56, 48>>
\* '0,0,1000,6,0,L|1:1,1,0' : a slider at 1000 of length 0, new combo
H_SliderEmpty ==
  <<48, 44, 48, 44, 49, 48, 48, 48, 44, 54, 44, 48, 44, 76, 124, 49, 58, 49,
  44, 49, 44, 48>>
\* '256,192,3000,8,0,2500' : a spinner at 3000 whose end field is 2500
H_Spinner ==
  <<50, 53, 54, 44, 49, 57, 50, 44, 51, 48, 48, 48, 44, 56, 44, 48, 44, 50,
  53, 48, 48>>
\* '64,192,1500,128,0,1800:0:0:0:0:' : a mania hold from 1500 to 1800
H_Hold ==
  <<54, 52, 44, 49, 57, 50, 44, 49, 53, 48, 48, 44, 49, 50, 56, 44, 48, 44,
  49, 56, 48, 48, 58, 48, 58, 48, 58, 48, 58, 48, 58>>
\* '1,2,3' : fewer than 4 fields
H_Short ==
  <<49, 44, 50, 44, 51>>

\* The sequences of at most n elements of the set pool.
RECURSIVE SeqsUpTo(_, _)
SeqsUpTo(pool, n) ==
  IF n = 0 THEN {<<>>}
  ELSE SeqsUpTo(pool, n - 1)
         \cup {Append(s, x) : s \in {q \in SeqsUpTo(pool, n - 1) : Len(q) = n - 1}, x \in pool}

\* The most Events lines and the most HitObjects lines of a text.
MaxEvents == 2
MaxHits == 2

\* The lines before [Events]: metadata and general settings, well formed,
\* with empty or out-of-range values, or none at all.
HeadBlocks ==
  {<<L_Metadata, L_Title, L_Artist, L_Creator, L_Version, L_SetId, L_General, L_Mode2>>,
   <<L_Metadata, L_CreatorEmpty, L_Version, L_SetIdNegative, L_General, L_Mode7>>,
   <<L_Metadata, L_Title, L_TitleEmpty, L_General, L_ModeNegative, L_PreviewTime>>,
   <<>>}

EventPool == {E_Jpg, E_Png, E_Txt, E_Kanji, E_Break, E_Short}

\* A head block, then an [Events] section of at most MaxEvents lines.
MetaTexts ==
  {h \o <<L_Events>> \o es : h \in HeadBlocks, es \in SeqsUpTo(EventPool, MaxEvents)}

DifficultyBlocks == {<<>>, <<L_DifficultyHeader, D_Sm14>>, <<L_DifficultyHeader, D_Sm0>>}

TimingBlocks ==
  {<<>>, <<L_TimingPointsHeader, T_Ta>>, <<L_TimingPointsHeader, T_Ta, T_Tb>>,
   <<L_TimingPointsHeader, T_Tc, T_Tb>>, <<L_TimingPointsHeader, T_Tc>>}

HitPool ==
  {H_Circle, H_Slider, H_SliderEarly, H_SliderLong, H_SliderEmpty, H_Spinner, H_Hold, H_Short}

\* A slider multiplier, timing points, then a [HitObjects] section of at most
\* MaxHits lines.
HitTexts ==
  {df \o tb \o <<L_HitObjectsHeader>> \o hs :
     df \in DifficultyBlocks, tb \in TimingBlocks, hs \in SeqsUpTo(HitPool, MaxHits)}

\* '  ' : a line of blanks
X_Blank ==
  <<32, 32>>
\* '// note'
X_Comment ==
  <<47, 47, 32, 110, 111, 116, 101>>
\* '[metadata]'
X_MetadataLower ==
  <<91, 109, 101, 116, 97, 100, 97, 116, 97, 93>>
\* '[EVENTS]'
X_EventsUpper ==
  <<91, 69, 86, 69, 78, 84, 83, 93>>
\* '[Colours]' : a header that is none of the seven names
X_Colours ==
  <<91, 67, 111, 108, 111, 117, 114, 115, 93>>
\* '[general]'
X_GeneralLower ==
  <<91, 103, 101, 110, 101, 114, 97, 108, 93>>
\* '[editor]'
X_EditorLower ==
  <<91, 101, 100, 105, 116, 111, 114, 93>>
\* '[difficulty]'
X_DifficultyLower ==
  <<91, 100, 105, 102, 102, 105, 99, 117, 108, 116, 121, 93>>
\* '[TIMINGPOINTS]'
X_TimingUpper ==
  <<91, 84, 73, 77, 73, 78, 71, 80, 79, 73, 78, 84, 83, 93>>
\* '[hitOBJECTS]'
X_HitObjectsMixed ==
  <<91, 104, 105, 116, 79, 66, 74, 69, 67, 84, 83, 93>>
\* 'Bookmarks: 1,2'
X_Bookmarks ==
  <<66, 111, 111, 107, 109, 97, 114, 107, 115, 58, 32, 49, 44, 50>>

\* The most lines of a text of headers, comments and data lines.
MaxSectionLines == 3

SectionPool ==
  {X_Blank, X_Comment, X_MetadataLower, X_EventsUpper, X_Colours, X_HitObjectsMixed,
   L_Title, E_Jpg, H_Circle}

\* Headers in any case, blank lines, comments and data lines in any order,
\* and one text for each of the other four known headers.
SectionTexts ==
  SeqsUpTo(SectionPool, MaxSectionLines)
    \cup {<<X_GeneralLower, L_Mode2>>, <<X_EditorLower, X_Bookmarks>>,
          <<X_DifficultyLower, D_Sm14>>, <<X_TimingUpper, T_Ta>>}

\* 'Creator:Red'
L_CreatorRed ==
  <<67, 114, 101, 97, 116, 111, 114, 58, 82, 101, 100>>
\* 'Version:Hard'
L_VersionHard ==
  <<86, 101, 114, 115, 105, 111, 110, 58, 72, 97, 114, 100>>

\* Metadata whose keys repeat, in one section or in a second one.
HeaderTexts ==
  {<<L_Metadata, L_Creator, L_Version, L_CreatorRed>>,
   <<L_Metadata, L_Creator, L_CreatorRed, L_Version>>,
   <<L_Metadata, L_Version, L_VersionHard, L_Creator, L_Title>>,
   <<L_Metadata, L_Creator, L_Version, L_General, L_Mode2, X_MetadataLower, L_CreatorRed>>,
   <<L_Metadata, L_Creator, L_General, L_Mode2, L_Metadata, L_Version, L_VersionHard>>,
   <<L_General, L_Creator, L_Metadata, L_CreatorEmpty, L_Version, L_Events, L_Creator>>}

\* 'dragon', 'red', ' , ', 'Red, SANE': filter strings
FilterLower == <<100, 114, 97, 103, 111, 110>>
FilterRed == <<114, 101, 100>>
FilterBlank == <<32, 44, 32>>
FilterTwo == <<82, 101, 100, 44, 32, 83, 65, 78, 69>>

ParseFilters ==
  {None, Some(FilterDragon), Some(FilterUnknown), Some(FilterLower), Some(FilterRed),
   Some(FilterBlank), Some(FilterTwo)}


(***************************************************************************)
(* State.                                                                  *)
(***************************************************************************)

VARIABLES
  root_ok,        \* the root exists and is a directory
  tree,           \* the entries WalkDir yields under the root, in traversal order
  parallelism,    \* std::thread::available_parallelism(): Some(count), or None for Err
  entry_point,    \* "streaming" (scan_directory_streaming) or "internal" (scan_directory_internal)
  mapper_name,    \* argument mapper_name: Option<String>
  known_files,    \* argument known_files: Option<HashMap<String, f64>>
  pc,             \* where the calling thread is
  osu_entries,    \* local osu_entries: Vec<(String, f64)>
  known,          \* the shared cache map, Arc<HashMap<String, f64>>
  mappers,        \* the shared filter terms, Arc<Vec<String>>
  total_for_progress, \* the progress denominator
  chunks,         \* osu_entries.chunks(chunk_size), one per worker to spawn
  workers,        \* the spawned worker threads, in spawn order
  joined,         \* how many handles the calling thread has joined
  batch_counter,  \* Mutex<usize>: the next batch index
  total_emitted,  \* Mutex<usize>: the emitted-count accumulator
  events,         \* the sink: every window.emit call, in call order
  files,          \* scan_directory_internal's local files
  ret,            \* the value the entry point returned, None until it returns
  async_ret,      \* what the command scan_directory_osu_files resolved to, None before
  text,           \* a parse: the lines of content.lines() not yet visited
  locals,         \* a parse: the locals of parse_osu_content
  parse_ret,      \* a parse: the ParsedOsu returned, None until it returns
  header_ret      \* the same content on the fast path: the header read and the value returned

vars ==
  <<root_ok, tree, parallelism, entry_point, mapper_name, known_files, pc,
    osu_entries, known, mappers, total_for_progress, chunks, workers, joined,
    batch_counter, total_emitted, events, files, ret, async_ret, text, locals,
    parse_ret, header_ret>>

\* The variables of a parse on its own.
parse_run == <<text, locals, parse_ret, header_ret>>

\* What a scan never writes: the file system, the caller's arguments, the
\* value of the command that wraps the streaming scan, and the variables of a
\* parse on its own.
env ==
  <<root_ok, tree, parallelism, entry_point, mapper_name, known_files, async_ret,
    parse_run>>

\* The argument dir_path.
dir_path == "Songs"

(***************************************************************************)
(* Discovery, change detection and the mapper filter.                      *)
(***************************************************************************)

\* The entries find_osu_files_with_mtime keeps: those the walk could read
\* that are regular files with extension osu, compared without case.
IsOsuEntry(e) ==
  /\ e.walk_ok
  /\ e.is_file
  /\ IsSome(e.extension)
  /\ eq_ascii_ci(Unwrap(e.extension), S_osu)

\* The (path, mtime) pair pushed for a kept entry; an entry whose modification
\* time cannot be read gets 0.0.
WalkEntry(e) == [file_path |-> e.path, mtime_ms |-> unwrap_or(e.modified, 0)]

\* The pairs of the kept entries sel, in traversal order.
WalkFrom(sel) == [i \in 1..Len(sel) |-> WalkEntry(sel[i])]

find_osu_files_with_mtime(t) == WalkFrom(SelectSeq(t, IsOsuEntry))

\* The file behind a path of tree.
FileAt(file_path) ==
  Disk[tree[CHOOSE i \in 1..Len(tree) : tree[i].path = file_path].file]

\* The number of bytes the header reads take from a file.
HeaderBytes == 8192

\* reader.by_ref().take(8192).read_to_end(&mut buf)
TakeHeader(bytes) == SubSeq(bytes, 1, Min(Len(bytes), HeaderBytes))

\* 0.5 ms, in quarter milliseconds.
HalfMs == 2

\* mappers.iter().any(|m| creator_lower.contains(m) || version_lower.contains(m)),
\* cv the creator and the version before they are lowercased
\* A match that compares the creator and version as written, without
\* lowercasing them.
AnyMapperMatchesExact(ms, cv) ==
  \E k \in 1..Len(ms) : contains(cv.creator, ms[k]) \/ contains(cv.version, ms[k])

AnyMapperMatches(ms, cv) ==
  \E k \in 1..Len(ms) :
    \/ contains(to_ascii_lowercase(cv.creator), ms[k])
    \/ contains(to_ascii_lowercase(cv.version), ms[k])

\* mapper_name.unwrap_or_default().split(',').map(|s| s.trim().to_ascii_lowercase())
\*   .filter(|s| !s.is_empty()).collect()
RECURSIVE NonEmptyTerms(_)
NonEmptyTerms(pieces) ==
  IF pieces = <<>> THEN <<>>
  ELSE LET term == to_ascii_lowercase(trim(Head(pieces)))
       IN  (IF term = <<>> THEN <<>> ELSE <<term>>) \o NonEmptyTerms(Tail(pieces))

parse_mappers(name) == NonEmptyTerms(split(unwrap_or(name, <<>>), 44))

\* (cached_mtime - mtime_ms).abs() < 0.5
mtime_unchanged(cached_mtime, mtime_ms) == Abs(cached_mtime - mtime_ms) < HalfMs

\* An unchanged result that carries metadata all the same.
UnchangedPayloadWithMetadata(file_path, mtime_ms) ==
  [file_path |-> file_path, mtime_ms |-> mtime_ms, unchanged |-> Some(TRUE),
   metadata |-> Some(DefaultMetadata), hit_starts |-> None, hit_ends |-> None,
   break_periods |-> None, bookmarks |-> None]

\* The ScanFilePayload of a file found unchanged.
UnchangedPayload(file_path, mtime_ms) ==
  [file_path |-> file_path, mtime_ms |-> mtime_ms, unchanged |-> Some(TRUE),
   metadata |-> None, hit_starts |-> None, hit_ends |-> None,
   break_periods |-> None, bookmarks |-> None]

\* The ScanFilePayload of a file parsed in full.
FullPayload(file_path, mtime_ms, parsed) ==
  [file_path |-> file_path, mtime_ms |-> mtime_ms, unchanged |-> None,
   metadata |-> Some(parsed.metadata), hit_starts |-> Some(parsed.hit_starts),
   hit_ends |-> Some(parsed.hit_ends), break_periods |-> Some(parsed.break_periods),
   bookmarks |-> Some(parsed.bookmarks)]

\* What scan_single_osu_file does: it returns r, or it unwinds.
Returns(r) == [panicked |-> FALSE, result |-> r]
Unwinds == [panicked |-> TRUE, result |-> None]

\* The header read of a file that could be opened: the first 8192 bytes,
\* lossily decoded, and the creator and version found in them.
header_of(file) ==
  parse_header_creator_and_version(from_utf8_lossy(TakeHeader(file.bytes)))

\* The fast path of scan_single_osu_file, for a cached file whose time did not
\* change: with a filter the file is opened and its header must match.
scan_unchanged(file_path, mtime_ms, mapper_terms, file) ==
  IF mapper_terms # <<>> /\ ~file.open_ok THEN Returns(None)
  ELSE IF mapper_terms # <<>> /\ ~AnyMapperMatches(mapper_terms, header_of(file))
    THEN Returns(None)
  ELSE Returns(Some(UnchangedPayload(file_path, mtime_ms)))

\* The end of the full-parse path, parsed the value of parse_osu_content (or
\* its panic).
scan_parsed(file_path, mtime_ms, mapper_terms, parsed) ==
  IF parsed.panicked THEN Unwinds
  ELSE IF mapper_terms # <<>> /\ ~AnyMapperMatches(mapper_terms, parsed.metadata)
    THEN Returns(None)
  ELSE Returns(Some(FullPayload(file_path, mtime_ms, parsed)))

\* The full-parse path of scan_single_osu_file: File::open(path).ok()?, then
\* read_to_string(&mut content).ok()?, which fails on bytes that are not
\* UTF-8, then the parse.
scan_full(file_path, mtime_ms, mapper_terms, file) ==
  IF ~file.open_ok THEN Returns(None)
  ELSE IF ~is_valid_utf8(file.bytes) THEN Returns(None)
  ELSE scan_parsed(file_path, mtime_ms, mapper_terms, parse_osu_content(file.bytes))

\* scan_single_osu_file: result is the Option<ScanFilePayload> it returns;
\* panicked = TRUE when parse_osu_content unwinds and nothing is returned.
scan_single_osu_file(file_path, mtime_ms, known_map, mapper_terms) ==
  IF /\ file_path \in DOMAIN known_map
     /\ mtime_unchanged(known_map[file_path], mtime_ms)
    THEN scan_unchanged(file_path, mtime_ms, mapper_terms, FileAt(file_path))
    ELSE scan_full(file_path, mtime_ms, mapper_terms, FileAt(file_path))

\* file_matches_mapper, file the file at the path
header_matches(file, mapper_terms) ==
  file.open_ok /\ AnyMapperMatches(mapper_terms, header_of(file))

file_matches_mapper(file_path, mapper_terms) ==
  header_matches(FileAt(file_path), mapper_terms)

\* osu_entries.iter().filter(|(path, _)| file_matches_mapper(path, mappers_ref)).count()
CountMatches(entries, mapper_terms) ==
  Cardinality({i \in 1..Len(entries) : file_matches_mapper(entries[i].file_path, mapper_terms)})

\* The progress denominator.
progress_total(entries, mapper_terms) ==
  IF mapper_terms # <<>> THEN CountMatches(entries, mapper_terms) ELSE Len(entries)

(***************************************************************************)
(* Partition of the candidates among the workers.                          *)
(***************************************************************************)

\* The bounds of the clamp, and what replaces a parallelism that cannot be
\* read.
MinThreads == 4
MaxThreads == 32
DefaultParallelism == 4

\* usize::div_ceil
div_ceil(a, b) == (a + b - 1) \div b

\* max_threads.min(osu_entries.len())
worker_count_of(par, n) ==
  Min(clamp(2 * unwrap_or(par, DefaultParallelism), MinThreads, MaxThreads), n)

\* osu_entries.len().div_ceil(worker_count)
chunk_size_of(par, n) == div_ceil(n, worker_count_of(par, n))

\* slice::chunks(size): consecutive pieces of size elements, the last one
\* possibly shorter.
RECURSIVE slice_chunks(_, _)
slice_chunks(s, size) ==
  IF s = <<>> THEN <<>>
  ELSE IF Len(s) <= size THEN <<s>>
  ELSE <<SubSeq(s, 1, size)>> \o slice_chunks(SubSeq(s, size + 1, Len(s)), size)

(***************************************************************************)
(* The scan.                                                               *)
(***************************************************************************)

\* The number of results a worker buffers before it emits a batch.
BatchSize == 50

\* A buffer handed over one result before it holds 50.
batch_full_early(len) == len >= BatchSize - 1

\* A buffer that is emitted only once it holds more than a batch.
batch_full_late(len) == len > BatchSize

\* local_batch.len() >= 50
batch_full(len) == len >= BatchSize

\* A claim that leaves the counter where it was.
claim_batch_index_stuck(c) == [idx |-> c, counter |-> c]

\* { let mut c = batch_counter.lock().unwrap(); let idx = *c; *c += 1; idx }
claim_batch_index(c) == [idx |-> c, counter |-> c + 1]

\* An accumulator updated from a stale read: a store of count over the value
\* the accumulator had when the scan began.
add_emitted_lost(total, count) == count

\* An accumulator that counts every batch twice.
add_emitted_twice(total, count) == total + count + count

\* *total_emitted.lock().unwrap() += count
add_emitted(total, count) == total + count

\* window.emit(event, payload)
emit(sink, event, payload) == Append(sink, [event |-> event, payload |-> payload])

ScanCompleteEvent(total) == [directory |-> dir_path, total_files |-> total]

ScanBatchEvent(batch, idx, total) ==
  [files |-> batch, directory |-> dir_path, batch_index |-> idx, total_files |-> total]

\* A scan that records the time it saw in the cache.
known_after_scan_insert(known_map, file_path, mtime_ms) ==
  [p \in DOMAIN known_map \cup {file_path} |->
     IF p = file_path THEN mtime_ms ELSE known_map[p]]

\* What known holds after scan_single_osu_file ran on a file: the map is
\* borrowed immutably (&HashMap) and only read with get.
known_after_scan(known_map, file_path, mtime_ms) == known_map

\* Init: a scan is about to be called.  Either a directory of at most
\* MaxEntries entries chosen among the templates, with any filter and any
\* cache (a root that does not exist or is no directory has no entries), or
\* one of the two large directories of BigEntries .osu files or the directory
\* of five entries, without filter or cache, on a machine of two cores.
InitEnv ==
  \/ /\ root_ok \in BOOLEAN
     /\ \E ts \in SmallChoices : tree = TreeOf(ts)
     /\ root_ok = FALSE => tree = <<>>
     /\ parallelism = None
     /\ mapper_name \in Filters
     /\ known_files \in CachesFor(tree)
  \/ /\ root_ok = TRUE
     /\ tree \in {TreeOf(BigChoice(BigEntries, 50)), TreeOf(PanicChoice(BigEntries, 50)),
                  TreeOf(MidChoice)}
     /\ parallelism = Some(2)
     /\ mapper_name = None
     /\ known_files = None

Init ==
  /\ InitEnv
  /\ entry_point \in {"streaming", "internal"}
  /\ pc = "call"
  /\ osu_entries = <<>>
  /\ known = <<>>
  /\ mappers = <<>>
  /\ total_for_progress = 0
  /\ chunks = <<>>
  /\ workers = <<>>
  /\ joined = 0
  /\ batch_counter = 0
  /\ total_emitted = 0
  /\ events = <<>>
  /\ files = <<>>
  /\ ret = None
  /\ async_ret = None
  /\ text = <<>>
  /\ locals = ParseStart
  /\ parse_ret = None
  /\ header_ret = None

\* The candidates of the directory being scanned.
Discovered == find_osu_files_with_mtime(tree)

\* The shared read-only state both entry points build before they spawn.
Prepare ==
  /\ osu_entries' = Discovered
  /\ known' = unwrap_or(known_files, <<>>)
  /\ mappers' = parse_mappers(mapper_name)
  /\ chunks' = slice_chunks(Discovered, chunk_size_of(parallelism, Len(Discovered)))

\* A streaming scan that returns from an invalid root or an empty candidate
\* list without a word to the sink.
StreamingBeginSilent ==
  /\ pc = "call"
  /\ entry_point = "streaming"
  /\ IF ~root_ok \/ Discovered = <<>>
       THEN /\ pc' = "returned"
            /\ ret' = Some(<<>>)
            /\ UNCHANGED <<events, osu_entries, known, mappers, total_for_progress, chunks>>
       ELSE /\ Prepare
            /\ total_for_progress' = progress_total(Discovered, parse_mappers(mapper_name))
            /\ pc' = "spawn"
            /\ UNCHANGED <<events, ret>>
  /\ UNCHANGED <<env, workers, joined, batch_counter, total_emitted, files>>

\* scan_directory_streaming up to the thread scope: an invalid root or an
\* empty candidate list emits scan-complete with total 0 and returns;
\* otherwise the cache, the filter terms, the progress denominator and the
\* chunks are set up.
StreamingBegin ==
  /\ pc = "call"
  /\ entry_point = "streaming"
  /\ IF ~root_ok \/ Discovered = <<>>
       THEN /\ events' = emit(events, "scan-complete", ScanCompleteEvent(0))
            /\ pc' = "returned"
            /\ ret' = Some(<<>>)
            /\ UNCHANGED <<osu_entries, known, mappers, total_for_progress, chunks>>
       ELSE /\ Prepare
            /\ total_for_progress' = progress_total(Discovered, parse_mappers(mapper_name))
            /\ pc' = "spawn"
            /\ UNCHANGED <<events, ret>>
  /\ UNCHANGED <<env, workers, joined, batch_counter, total_emitted, files>>

\* scan_directory_internal up to the thread scope: an invalid root or an empty
\* candidate list returns the empty payload.
InternalBegin ==
  /\ pc = "call"
  /\ entry_point = "internal"
  /\ IF ~root_ok \/ Discovered = <<>>
       THEN /\ pc' = "returned"
            /\ ret' = Some(<<>>)
            /\ UNCHANGED <<osu_entries, known, mappers, chunks>>
       ELSE /\ Prepare
            /\ pc' = "spawn"
            /\ UNCHANGED ret
  /\ UNCHANGED <<env, total_for_progress, workers, joined, batch_counter,
                 total_emitted, events, files>>

\* A worker thread as scope.spawn starts it, on the chunk it owns.
NewWorker(chunk) ==
  [pc |-> "scan", chunk_entries |-> chunk, next |-> 1, local_batch |-> <<>>,
   batch_idx |-> 0, count |-> 0, final |-> FALSE, out |-> <<>>]

\* A spawn loop after which the calling thread does not wait for the handles.
SpawnDetached ==
  /\ pc = "spawn"
  /\ workers' = Append(workers, NewWorker(chunks[Len(workers) + 1]))
  /\ pc' = IF Len(workers) + 1 = Len(chunks) THEN "finish" ELSE "spawn"
  /\ UNCHANGED <<env, osu_entries, known, mappers, total_for_progress, chunks,
                 joined, batch_counter, total_emitted, events, files, ret>>

\* One iteration of the loop over the chunks: the next worker is spawned.
\* After the last one the calling thread turns to the handles.
Spawn ==
  /\ pc = "spawn"
  /\ workers' = Append(workers, NewWorker(chunks[Len(workers) + 1]))
  /\ pc' = IF Len(workers) + 1 = Len(chunks) THEN "join" ELSE "spawn"
  /\ UNCHANGED <<env, osu_entries, known, mappers, total_for_progress, chunks,
                 joined, batch_counter, total_emitted, events, files, ret>>

\* A buffer that takes a new payload at its front.
push_result_front(batch, r) ==
  IF IsSome(r.result) THEN <<Unwrap(r.result)>> \o batch ELSE batch

\* local_batch.push(payload) when scan_single_osu_file returned Some(payload)
push_result(batch, r) == IF IsSome(r.result) THEN Append(batch, Unwrap(r.result)) ELSE batch

\* The state of a worker's loop over its chunk: the next file, the buffer,
\* the cache, and whether the loop goes on ("go"), left to emit a full
\* buffer ("full") or was unwound by a panic ("panic").
LoopStart(i, batch, known_map) ==
  [next |-> i, local_batch |-> batch, known |-> known_map, stop |-> "go"]

\* The rest of an iteration of the streaming worker's loop, batch the buffer
\* after the push.
AfterPush(run, batch) ==
  [run EXCEPT !.next = @ + 1, !.local_batch = batch,
              !.stop = IF batch_full(Len(batch)) THEN "full" ELSE "go"]

\* An iteration after scan_single_osu_file ended with r on file e.
AfterScan(run, e, r) ==
  IF r.panicked THEN [run EXCEPT !.stop = "panic"]
  ELSE AfterPush([run EXCEPT !.known = known_after_scan(@, e.file_path, e.mtime_ms)],
                 push_result(run.local_batch, r))

\* The iteration of the streaming worker's loop on file e, when the loop
\* reaches it.
ScanStep(run, e) ==
  IF run.stop # "go" THEN run
  ELSE AfterScan(run, e, scan_single_osu_file(e.file_path, e.mtime_ms, run.known, mappers))

\* The iterations on the files lo..hi of the chunk, in order.  The loop
\* touches nothing shared, so its iterations up to the next emit are one step
\* of the worker; the buffer only grows during them.
RECURSIVE ScanRange(_, _, _, _)
ScanRest(chunk, lo, hi, run) ==
  IF run.stop # "go" THEN run ELSE ScanRange(chunk, lo, hi, run)

ScanRange(chunk, lo, hi, run) ==
  IF lo > hi THEN run
  ELSE IF lo = hi THEN ScanStep(run, chunk[lo])
  ELSE ScanRest(chunk, ((lo + hi) \div 2) + 1, hi,
                ScanRange(chunk, lo, (lo + hi) \div 2, run))

\* The worker after a run r of its loop: a full buffer, or a non-empty one at
\* the end of the chunk, is to be emitted next; a panic ends the thread with
\* its buffer.
AfterRun(w, r) ==
  /\ workers' = [workers EXCEPT
         ![w].next = r.next,
         ![w].local_batch = r.local_batch,
         ![w].final = (r.stop = "go"),
         ![w].pc = IF r.stop = "panic" THEN "panicked"
                   ELSE IF r.stop = "go" /\ r.local_batch = <<>> THEN "done"
                   ELSE "claim"]
  /\ known' = r.known

\* A streaming worker scans on from where it is.
WorkerScan(w) ==
  /\ workers[w].pc = "scan"
  /\ entry_point = "streaming"
  /\ AfterRun(w, ScanRange(workers[w].chunk_entries, workers[w].next,
                           Len(workers[w].chunk_entries),
                           LoopStart(workers[w].next, workers[w].local_batch, known)))
  /\ UNCHANGED <<env, pc, osu_entries, mappers, total_for_progress, chunks, joined,
                 batch_counter, total_emitted, events, files, ret>>

\* The worker takes the next batch index under the batch_counter lock.
ClaimIndex(w) ==
  /\ workers[w].pc = "claim"
  /\ workers' = [workers EXCEPT ![w].batch_idx = claim_batch_index(batch_counter).idx,
                                ![w].pc = "emit"]
  /\ batch_counter' = claim_batch_index(batch_counter).counter
  /\ UNCHANGED <<env, pc, osu_entries, known, mappers, total_for_progress, chunks,
                 joined, total_emitted, events, files, ret>>

\* The worker hands its buffer to the sink as a scan-batch event and starts
\* an empty buffer.
EmitBatch(w) ==
  /\ workers[w].pc = "emit"
  /\ events' = emit(events, "scan-batch",
                    ScanBatchEvent(workers[w].local_batch, workers[w].batch_idx,
                                   total_for_progress))
  /\ workers' = [workers EXCEPT ![w].count = Len(workers[w].local_batch),
                                ![w].local_batch = <<>>,
                                ![w].pc = "add"]
  /\ UNCHANGED <<env, pc, osu_entries, known, mappers, total_for_progress, chunks,
                 joined, batch_counter, total_emitted, files, ret>>

\* The worker adds the emitted count under the total_emitted lock, and goes on
\* with its chunk or, after the remainder, ends.
AddEmitted(w) ==
  /\ workers[w].pc = "add"
  /\ total_emitted' = add_emitted(total_emitted, workers[w].count)
  /\ workers' = [workers EXCEPT ![w].pc = IF workers[w].final THEN "done" ELSE "scan"]
  /\ UNCHANGED <<env, pc, osu_entries, known, mappers, total_for_progress, chunks,
                 joined, batch_counter, events, files, ret>>

\* An iteration of the internal worker's loop after scan_single_osu_file ended
\* with r on file e: out.push(payload) for Some(payload).
AfterCollect(run, e, r) ==
  IF r.panicked THEN [run EXCEPT !.stop = "panic"]
  ELSE [run EXCEPT !.next = @ + 1,
                   !.local_batch = push_result(@, r),
                   !.known = known_after_scan(@, e.file_path, e.mtime_ms)]

\* The iteration of the internal worker's loop on file e, when the loop
\* reaches it.
CollectStep(run, e) ==
  IF run.stop # "go" THEN run
  ELSE AfterCollect(run, e, scan_single_osu_file(e.file_path, e.mtime_ms, run.known, mappers))

\* The iterations on the files lo..hi of the chunk, in order.
RECURSIVE CollectRange(_, _, _, _)
CollectRest(chunk, lo, hi, run) ==
  IF run.stop # "go" THEN run ELSE CollectRange(chunk, lo, hi, run)

CollectRange(chunk, lo, hi, run) ==
  IF lo > hi THEN run
  ELSE IF lo = hi THEN CollectStep(run, chunk[lo])
  ELSE CollectRest(chunk, ((lo + hi) \div 2) + 1, hi,
                   CollectRange(chunk, lo, (lo + hi) \div 2, run))

\* The internal worker after its loop ended with r: it returns out, or it
\* panicked.
AfterCollected(w, r) ==
  /\ workers' = [workers EXCEPT
         ![w].next = r.next,
         ![w].out = r.local_batch,
         ![w].pc = IF r.stop = "panic" THEN "panicked" ELSE "done"]
  /\ known' = r.known

WorkerCollect(w) ==
  /\ workers[w].pc = "scan"
  /\ entry_point = "internal"
  /\ AfterCollected(w, CollectRange(workers[w].chunk_entries, 1,
                                    Len(workers[w].chunk_entries),
                                    LoopStart(1, <<>>, known)))
  /\ UNCHANGED <<env, pc, osu_entries, mappers, total_for_progress, chunks, joined,
                 batch_counter, total_emitted, events, files, ret>>

\* handle.join() on the next handle, once its thread has ended.  The
\* streaming scan drops the result; the internal scan appends the Ok value
\* and drops the Err of a panicked thread.
Join ==
  /\ pc = "join"
  /\ workers[joined + 1].pc \in {"done", "panicked"}
  /\ joined' = joined + 1
  /\ files' = IF entry_point = "internal" /\ workers[joined + 1].pc = "done"
                THEN files \o workers[joined + 1].out ELSE files
  /\ pc' = IF joined + 1 = Len(workers) THEN "finish" ELSE "join"
  /\ UNCHANGED <<env, osu_entries, known, mappers, total_for_progress, chunks,
                 workers, batch_counter, total_emitted, events, ret>>

\* After the scope: scan-complete with the accumulated count.
StreamingComplete ==
  /\ pc = "finish"
  /\ entry_point = "streaming"
  /\ events' = emit(events, "scan-complete", ScanCompleteEvent(total_emitted))
  /\ pc' = "returned"
  /\ ret' = Some(<<>>)
  /\ UNCHANGED <<env, osu_entries, known, mappers, total_for_progress, chunks,
                 workers, joined, batch_counter, total_emitted, files>>

\* The number of elements of fs that a sort by file_path puts before fs[i]
\* (equal paths, which a walk never yields, in their order in fs).
RankByPath(fs, i) ==
  Cardinality({j \in 1..Len(fs) :
                 \/ fs[j].file_path < fs[i].file_path
                 \/ fs[j].file_path = fs[i].file_path /\ j < i})

\* A list returned in the order the handles gave it.
sort_by_file_path_skipped(fs) == fs

\* files.sort_unstable_by(|a, b| a.file_path.cmp(&b.file_path))
sort_by_file_path(fs) ==
  [k \in 1..Len(fs) |-> fs[CHOOSE i \in 1..Len(fs) : RankByPath(fs, i) = k - 1]]

\* After the scope: the sorted list is returned.
InternalReturn ==
  /\ pc = "finish"
  /\ entry_point = "internal"
  /\ files' = sort_by_file_path(files)
  /\ ret' = Some(files')
  /\ pc' = "returned"
  /\ UNCHANGED <<env, osu_entries, known, mappers, total_for_progress, chunks,
                 workers, joined, batch_counter, total_emitted, events>>

\* A command that resolves without awaiting the blocking task.
AwaitSkipped == entry_point = "streaming" /\ pc # "resolved"

\* spawn_blocking(move || scan_directory_streaming(..)).await: the command
\* goes on once the closure has returned.
AwaitDone == entry_point = "streaming" /\ pc = "returned"

\* ScanDirectoryPayload { files: vec![], directory: fallback_dir }
ScanDirectoryPayload == [files |-> <<>>, directory |-> dir_path]

\* The command scan_directory_osu_files resolves.
AsyncReturn ==
  /\ AwaitDone
  /\ async_ret' = Some(ScanDirectoryPayload)
  /\ pc' = "resolved"
  /\ UNCHANGED <<root_ok, tree, parallelism, entry_point, mapper_name, known_files,
                 parse_run, osu_entries, known, mappers, total_for_progress, chunks,
                 workers, joined, batch_counter, total_emitted, events, files, ret>>

Next ==
  \/ StreamingBegin
  \/ InternalBegin
  \/ Spawn
  \/ \E w \in 1..Len(workers) : WorkerScan(w)
  \/ \E w \in 1..Len(workers) : ClaimIndex(w)
  \/ \E w \in 1..Len(workers) : EmitBatch(w)
  \/ \E w \in 1..Len(workers) : AddEmitted(w)
  \/ \E w \in 1..Len(workers) : WorkerCollect(w)
  \/ Join
  \/ StreamingComplete
  \/ InternalReturn
  \/ AsyncReturn

Spec == Init /\ [][Next]_vars

(***************************************************************************)
(* A parse on its own: parse_osu_content on a text, one line of its loop   *)
(* per step, then the filter that ends the full-parse path of              *)
(* scan_single_osu_file.                                                   *)
(***************************************************************************)

\* What a parse on its own leaves alone.
scan_run ==
  <<root_ok, tree, parallelism, entry_point, mapper_name, known_files, osu_entries,
    known, mappers, total_for_progress, chunks, workers, joined, batch_counter,
    total_emitted, events, files, async_ret>>

\* The text, filter and build of a parse on its own: metadata and events with
\* any filter, timing and hit objects in a build with or without overflow
\* checks, headers, comments and data lines in any order, or metadata whose
\* keys and sections repeat, with any filter.
ParseInput ==
  \/ /\ text \in MetaTexts
     /\ mapper_name \in ParseFilters
     /\ locals = ParseStart
  \/ /\ text \in HitTexts
     /\ mapper_name = None
     /\ \E checks \in BOOLEAN : locals = [ParseStart EXCEPT !.overflow_checks = checks]
  \/ /\ text \in SectionTexts
     /\ mapper_name = None
     /\ locals = ParseStart
  \/ /\ text \in HeaderTexts
     /\ mapper_name \in ParseFilters
     /\ locals = ParseStart

ParseInit ==
  /\ ParseInput
  /\ root_ok = FALSE
  /\ tree = <<>>
  /\ parallelism = None
  /\ entry_point = "parse"
  /\ known_files = None
  /\ pc = "header"
  /\ osu_entries = <<>>
  /\ known = <<>>
  /\ mappers = <<>>
  /\ total_for_progress = 0
  /\ chunks = <<>>
  /\ workers = <<>>
  /\ joined = 0
  /\ batch_counter = 0
  /\ total_emitted = 0
  /\ events = <<>>
  /\ files = <<>>
  /\ ret = None
  /\ async_ret = None
  /\ parse_ret = None
  /\ header_ret = None

\* The content whose lines are ls: every line ended by a line feed.
RECURSIVE content_of(_)
content_of(ls) ==
  IF ls = <<>> THEN <<>> ELSE Head(ls) \o <<10>> \o content_of(Tail(ls))

\* The fast path of scan_single_osu_file on the content, as a file (of path 1
\* and time 0) that the cache holds with the same time: with a filter, the
\* header parsed from the first 8 KB, and the value returned.
HeaderScan ==
  /\ pc = "header"
  /\ header_ret' =
       LET file == [open_ok |-> TRUE, bytes |-> content_of(text)]
       IN  Some([header |-> IF parse_mappers(mapper_name) # <<>>
                             THEN Some(header_of(file)) ELSE None,
                 result |-> scan_unchanged(1, 0, parse_mappers(mapper_name), file).result])
  /\ pc' = "parse"
  /\ UNCHANGED <<scan_run, text, locals, parse_ret, ret>>

\* One iteration of `for line in content.lines()`.
ParseStep ==
  /\ pc = "parse"
  /\ text # <<>>
  /\ ~locals.panicked
  /\ locals' = ParseLine(locals, Head(text))
  /\ text' = Tail(text)
  /\ UNCHANGED <<scan_run, pc, parse_ret, header_ret, ret>>

\* A panic inside the loop unwinds parse_osu_content and its caller.
ParseUnwind ==
  /\ pc = "parse"
  /\ locals.panicked
  /\ pc' = "unwound"
  /\ UNCHANGED <<scan_run, parse_run, ret>>

\* The loop is over: parse_osu_content returns its ParsedOsu.
ParseFinish ==
  /\ pc = "parse"
  /\ text = <<>>
  /\ ~locals.panicked
  /\ parse_ret' = Some(ParsedOsu(locals))
  /\ pc' = "parsed"
  /\ UNCHANGED <<scan_run, text, locals, header_ret, ret>>

\* The end of the full-parse path: the filter, then the payload (of path 1
\* and time 0).
FilterParsed ==
  /\ pc = "parsed"
  /\ ret' = Some(scan_parsed(1, 0, parse_mappers(mapper_name), Unwrap(parse_ret)).result)
  /\ pc' = "returned"
  /\ UNCHANGED <<scan_run, parse_run>>

ParseNext ==
  \/ HeaderScan
  \/ ParseStep
  \/ ParseUnwind
  \/ ParseFinish
  \/ FilterParsed

ParseSpec == ParseInit /\ [][ParseNext]_vars

(***************************************************************************)
(* What the sink and the caller observe.                                   *)
(***************************************************************************)

\* The positions of the scan-batch and of the scan-complete events in events.
BatchAt == {i \in 1..Len(events) : events[i].event = "scan-batch"}
CompleteAt == {i \in 1..Len(events) : events[i].event = "scan-complete"}

\* The sum of the sizes of the scan-batch events among the first n events.
RECURSIVE BatchSizeSum(_)
BatchSizeSum(n) ==
  IF n = 0 THEN 0
  ELSE BatchSizeSum(n - 1)
         + (IF events[n].event = "scan-batch" THEN Len(events[n].payload.files) ELSE 0)

\* The batch indices the sink has seen.
SeenBatchIndices == {events[i].payload.batch_index : i \in BatchAt}

\* A streaming scan has returned.
StreamingReturned == pc = "returned" /\ entry_point = "streaming"

\* Every result the scan has produced so far: in a worker's buffer or output,
\* in an emitted batch, in the collected list or in the returned value.
ProducedResults ==
  UNION {{workers[w].local_batch[k] : k \in 1..Len(workers[w].local_batch)}
           \cup {workers[w].out[k] : k \in 1..Len(workers[w].out)} :
         w \in 1..Len(workers)}
    \cup UNION {{events[i].payload.files[k] : k \in 1..Len(events[i].payload.files)} :
                i \in BatchAt}
    \cup {files[k] : k \in 1..Len(files)}
    \cup (IF IsSome(ret) THEN {Unwrap(ret)[k] : k \in 1..Len(Unwrap(ret))} ELSE {})

\* The two shapes of a result.
IsUnchangedShape(p) ==
  /\ p.unchanged = Some(TRUE)
  /\ p.metadata = None /\ p.hit_starts = None /\ p.hit_ends = None
  /\ p.break_periods = None /\ p.bookmarks = None

IsFullShape(p) ==
  /\ p.unchanged = None
  /\ IsSome(p.metadata) /\ IsSome(p.hit_starts) /\ IsSome(p.hit_ends)
  /\ IsSome(p.break_periods) /\ IsSome(p.bookmarks)

\* A candidate whose file can be opened and read as text.
ReadableCandidate(e) ==
  FileAt(e.file_path).open_ok /\ is_valid_utf8(FileAt(e.file_path).bytes)

(***************************************************************************)
(* Claims.                                                                 *)
(***************************************************************************)

\* C1: in scan_directory_streaming, in every interleaving of the workers, the
\* total_files of the scan-complete event equals the sum of the sizes of all
\* scan-batch events of the scan: no update of the accumulator is lost.
C1_CompleteTotalIsBatchSum ==
  \A i \in CompleteAt : events[i].payload.total_files = BatchSizeSum(Len(events))

\* A scan completed after three batches of two workers, one of them full.
C1_Witness ==
  /\ StreamingReturned
  /\ Cardinality(BatchAt) = 3
  /\ \E i \in CompleteAt : events[i].payload.total_files = 52

\* C2: every invocation of scan_directory_streaming emits exactly one
\* scan-complete event, and no scan-batch event comes after it, in every
\* interleaving of the workers: at most one is ever in the log, it is the last
\* event of the log, and it is there when the scan has returned.
C2_OneCompleteAfterBatches ==
  /\ Cardinality(CompleteAt) <= 1
  /\ \A i \in CompleteAt : i = Len(events)
  /\ StreamingReturned => Cardinality(CompleteAt) = 1

\* A scan returned after two workers emitted a batch each.
C2_Witness ==
  /\ StreamingReturned
  /\ Cardinality(BatchAt) = 2
  /\ Len(events) = 3
  /\ events[3].event = "scan-complete"

\* C3: every scan-batch event carries at least 1 and at most 50 results, and
\* a worker's local buffer never holds more than 50 results.
C3_BatchSizeBounds ==
  /\ \A i \in BatchAt : Len(events[i].payload.files) \in 1..50
  /\ \A w \in 1..Len(workers) : Len(workers[w].local_batch) <= 50

\* A worker emitted a batch of 50 and went on with the rest of its chunk,
\* and another worker emitted a batch of 1.
C3_Witness ==
  /\ \E i \in BatchAt : Len(events[i].payload.files) = 50
  /\ \E i \in BatchAt : Len(events[i].payload.files) = 1
  /\ \E w \in 1..Len(workers) : workers[w].pc = "scan" /\ workers[w].next = 51

\* C4: within one streaming scan no two scan-batch events carry the same
\* batch_index, and the indices of the B batches of a scan are exactly
\* 0..B-1, in every interleaving; the batches may reach the sink in another
\* order than that of their indices.
C4_BatchIndicesUnique ==
  /\ \A i, j \in BatchAt :
       events[i].payload.batch_index = events[j].payload.batch_index => i = j
  /\ StreamingReturned => SeenBatchIndices = 0..(Cardinality(BatchAt) - 1)

\* The batch of index 1 reached the sink before the batch of index 0.
C4_Witness ==
  /\ StreamingReturned
  /\ \E i, j \in BatchAt :
       i < j /\ events[i].payload.batch_index > events[j].payload.batch_index

\* C5: with a mapper filter the progress denominator every scan-batch event
\* carries, the pre-count of file_matches_mapper, equals the number of files
\* the scan emits, the total_files of the scan-complete event, for every set
\* of candidates and every cache.
C5_DenominatorIsEmittedTotal ==
  (StreamingReturned /\ mappers # <<>>) =>
    \A i \in BatchAt : \A j \in CompleteAt :
      events[i].payload.total_files = events[j].payload.total_files

\* C6: a streaming scan without filter over N candidates that are all
\* readable emits batches whose sizes sum to N, each with denominator N, and
\* a completion total of N.
C6_AllReadableAllEmitted ==
  (/\ StreamingReturned
   /\ root_ok
   /\ parse_mappers(mapper_name) = <<>>
   /\ \A k \in 1..Len(Discovered) : ReadableCandidate(Discovered[k])) =>
    /\ BatchSizeSum(Len(events)) = Len(Discovered)
    /\ \A i \in BatchAt : events[i].payload.total_files = Len(Discovered)
    /\ \A j \in CompleteAt : events[j].payload.total_files = Len(Discovered)

\* C7: when the root does not exist, is no directory or holds no candidate,
\* scan_directory_streaming emits no scan-batch event and exactly one
\* scan-complete event with total_files 0, no worker is ever started, and
\* scan_directory_internal returns an empty list.
C7_NothingToScan ==
  (~root_ok \/ Discovered = <<>>) =>
    /\ workers = <<>>
    /\ BatchAt = {}
    /\ StreamingReturned =>
         events = <<[event |-> "scan-complete", payload |-> ScanCompleteEvent(0)]>>
    /\ (pc = "returned" /\ entry_point = "internal") =>
         ret = Some(<<>>) /\ events = <<>>

\* A streaming scan returned from a directory that exists and has entries,
\* none of them an .osu file.
C7_Witness ==
  /\ StreamingReturned
  /\ root_ok
  /\ tree # <<>>
  /\ Discovered = <<>>

\* C8: for a readable file and no filter scan_single_osu_file returns an
\* unchanged result when the path is cached with a time less than 0.5 ms from
\* the file's, and a full re-parse result otherwise (time 0.5 ms or more away,
\* path not cached, no cache).
C8_CacheDecidesResult ==
  \A k \in 1..Len(osu_entries) :
    (mappers = <<>> /\ ReadableCandidate(osu_entries[k])) =>
      IF /\ osu_entries[k].file_path \in DOMAIN known
         /\ Abs(known[osu_entries[k].file_path] - osu_entries[k].mtime_ms) < 2
        THEN /\ ~scan_single_osu_file(osu_entries[k].file_path, osu_entries[k].mtime_ms,
                                      known, mappers).panicked
             /\ scan_single_osu_file(osu_entries[k].file_path, osu_entries[k].mtime_ms,
                                     known, mappers).result
                  = Some(UnchangedPayload(osu_entries[k].file_path, osu_entries[k].mtime_ms))
        ELSE /\ ~scan_single_osu_file(osu_entries[k].file_path, osu_entries[k].mtime_ms,
                                      known, mappers).panicked
             /\ IsSome(scan_single_osu_file(osu_entries[k].file_path, osu_entries[k].mtime_ms,
                                            known, mappers).result)
             /\ IsFullShape(Unwrap(scan_single_osu_file(osu_entries[k].file_path,
                                                        osu_entries[k].mtime_ms,
                                                        known, mappers).result))

\* C9: every result a scan produces has exactly one of two shapes: unchanged
\* true with metadata, hit_starts, hit_ends, break_periods and bookmarks
\* absent, or unchanged absent with the five present.
C9_TwoResultShapes ==
  \A p \in ProducedResults :
    /\ IsUnchangedShape(p) \/ IsFullShape(p)
    /\ ~(IsUnchangedShape(p) /\ IsFullShape(p))

\* A scan returned results of both shapes to the sink.
C9_Witness ==
  /\ StreamingReturned
  /\ \E p \in ProducedResults : IsUnchangedShape(p)
  /\ \E p \in ProducedResults : IsFullShape(p)

\* C10: a scan, streaming or synchronous, never changes the cache map the
\* caller supplied: the map the workers share has the paths and the times of
\* the argument (none for an absent one) from the moment it is built to the
\* return, whatever the files were found to be.
C10_CacheNeverChanged ==
  pc # "call" /\ workers # <<>> => known = unwrap_or(known_files, <<>>)

\* A scan returned that found a cached file changed and another candidate
\* unreadable.
C10_Witness ==
  /\ pc = "returned"
  /\ IsSome(known_files)
  /\ \E p \in ProducedResults : IsFullShape(p) /\ p.file_path \in DOMAIN known
  /\ \E k \in 1..Len(osu_entries) : ~FileAt(osu_entries[k].file_path).open_ok

\* The synchronous scan has returned.
InternalReturned == pc = "returned" /\ entry_point = "internal"

\* C11: the list scan_directory_internal returns is strictly ascending by
\* file_path, so no two entries have the same path, whatever the order the
\* workers finished in and however the candidates were chunked.
C11_ReturnedListAscending ==
  InternalReturned =>
    \A k \in 1..(Len(Unwrap(ret)) - 1) :
      Unwrap(ret)[k].file_path < Unwrap(ret)[k + 1].file_path

\* A synchronous scan returned 52 results of several workers, whose chunks
\* the traversal had filled in descending order of path.
C11_Witness ==
  /\ InternalReturned
  /\ Len(workers) = 4
  /\ Len(Unwrap(ret)) = 52
  /\ osu_entries[1].file_path > osu_entries[2].file_path

\* The results a returned scan gave: those of its batches, or its list.
DeliveredResults ==
  IF entry_point = "streaming"
    THEN UNION {{events[i].payload.files[k] : k \in 1..Len(events[i].payload.files)} :
                i \in BatchAt}
    ELSE {Unwrap(ret)[k] : k \in 1..Len(Unwrap(ret))}

\* Candidate e is readable and passes the filter: scan_single_osu_file
\* returns a result for it.
YieldsResult(e) ==
  /\ ~scan_single_osu_file(e.file_path, e.mtime_ms, known, mappers).panicked
  /\ IsSome(scan_single_osu_file(e.file_path, e.mtime_ms, known, mappers).result)

\* C12: in both scans a failure on one candidate excludes only that file:
\* every other candidate that is readable and passes the filter is among the
\* results of the returned scan.
C12_FailureExcludesOneFile ==
  pc = "returned" =>
    \A k \in 1..Len(osu_entries) :
      YieldsResult(osu_entries[k]) =>
        \E p \in DeliveredResults : p.file_path = osu_entries[k].file_path

\* C13: parse_osu_content completes and returns a result for every input
\* text: no line, whatever its numbers, columns or characters, makes the
\* parse unwind.
C13_ParseNeverAborts == ~locals.panicked /\ pc # "unwound"

\* hit_starts and hit_ends are parallel, and no end is before its start.
EndsNotBeforeStarts(hit_starts, hit_ends) ==
  /\ Len(hit_starts) = Len(hit_ends)
  /\ \A i \in 1..Len(hit_starts) : hit_ends[i] >= hit_starts[i]

\* The start time the code reads from a line: its third field, 0 by default.
LineStart(line) ==
  unwrap_or(parse_i32(trim(unwrap_or(csv_field(trim(line), 2), <<48>>))), 0)

\* A step of the parse leaves both lists alone or, on a line of the
\* HitObjects section, appends one entry to each, the start being that line's.
HitsAppendInOrder ==
  \/ /\ locals'.hit_starts = locals.hit_starts
     /\ locals'.hit_ends = locals.hit_ends
  \/ /\ text # <<>>
     /\ locals.section = "HitObjects"
     /\ locals'.hit_starts = Append(locals.hit_starts, LineStart(Head(text)))
     /\ Len(locals'.hit_ends) = Len(locals.hit_ends) + 1
     /\ \A i \in 1..Len(locals.hit_ends) : locals'.hit_ends[i] >= locals.hit_ends[i]

\* C14: hit_starts and hit_ends have the same length, entry i of both comes
\* from the i-th accepted HitObjects line in source order, and
\* hit_ends[i] >= hit_starts[i] for every i, after each line processed and in
\* the result returned.
C14_HitsParallelAndOrdered ==
  [][/\ HitsAppendInOrder
     /\ EndsNotBeforeStarts(locals'.hit_starts, locals'.hit_ends)
     /\ IsSome(parse_ret') =>
          /\ Unwrap(parse_ret').hit_starts = locals.hit_starts
          /\ Unwrap(parse_ret').hit_ends = locals.hit_ends
          /\ EndsNotBeforeStarts(Unwrap(parse_ret').hit_starts, Unwrap(parse_ret').hit_ends)]_vars

\* A parse returned two hit objects: a slider at 200 whose end was raised to
\* the start of the next object, and a spinner at 3000 whose end field, 2500,
\* was clamped to its start.
C14_Witness ==
  /\ IsSome(parse_ret)
  /\ Unwrap(parse_ret).hit_starts = <<200, 3000>>
  /\ Unwrap(parse_ret).hit_ends = <<3000, 3000>>
  /\ locals.hit_types = <<2, 8>>

\* What normalization makes of a parsed string v: v when it is not empty,
\* the placeholder otherwise.
OrPlaceholder(v, placeholder) == IF v = <<>> THEN placeholder ELSE v

\* C15: the metadata returned by parse_osu_content has non-empty title,
\* artist, creator, version and beatmap_set_id, an empty parsed one being
\* replaced by its placeholder ("Unknown" for beatmap_set_id) and a non-empty
\* one kept as parsed, and its mode is within [0,3].
C15_MetadataNormalized ==
  IsSome(parse_ret) =>
    LET m == Unwrap(parse_ret).metadata
        raw == locals.metadata
    IN  /\ m.title = OrPlaceholder(raw.title, S_UnknownTitle) /\ m.title # <<>>
        /\ m.artist = OrPlaceholder(raw.artist, S_UnknownArtist) /\ m.artist # <<>>
        /\ m.creator = OrPlaceholder(raw.creator, S_UnknownCreator) /\ m.creator # <<>>
        /\ m.version = OrPlaceholder(raw.version, S_UnknownVersion) /\ m.version # <<>>
        /\ m.beatmap_set_id = OrPlaceholder(raw.beatmap_set_id, S_Unknown)
        /\ m.beatmap_set_id # <<>>
        /\ m.mode \in 0..3

\* A parse returned metadata whose title and creator are placeholders, whose
\* version and beatmapset reference are the parsed ones, and whose mode 7 was
\* clamped to 3.
C15_Witness ==
  /\ IsSome(parse_ret)
  /\ locals.metadata.title = <<>> /\ Unwrap(parse_ret).metadata.title = S_UnknownTitle
  /\ locals.metadata.creator = <<>> /\ Unwrap(parse_ret).metadata.creator = S_UnknownCreator
  /\ Unwrap(parse_ret).metadata.version = <<73, 110, 115, 97, 110, 101>>
  /\ Unwrap(parse_ret).metadata.beatmap_set_id = <<45, 53>>
  /\ locals.metadata.mode = 7 /\ Unwrap(parse_ret).metadata.mode = 3

\* The type the code reads from a line: its fourth field, 0 by default.
LineType(line) ==
  unwrap_or(parse_i32(trim(unwrap_or(csv_field(trim(line), 3), <<48>>))), 0)

\* The line about to be parsed is a slider of the HitObjects section: type
\* bit 0x2 and at least 8 fields.
AtSliderLine ==
  /\ pc = "parse" /\ text # <<>> /\ ~locals.panicked
  /\ locals.section = "HitObjects"
  /\ csv_field_count(trim(Head(text))) >= 8
  /\ LineType(Head(text)) % 4 >= 2

\* floor(max(0, length / (sliderMultiplier * 100 * activeSV) * activeBeat * slides))
\* for the slider line, act the tempo state at its start.
ClaimedDuration(line, act) ==
  FFloor(FMaxZero(slider_duration(
    unwrap_or(parse_f64(trim(unwrap_or(csv_field(trim(line), 7), <<48>>))), FInt(0)),
    locals.slider_multiplier, act.active_sv, act.active_beat,
    unwrap_or(parse_f64(trim(unwrap_or(csv_field(trim(line), 6), <<49>>))), FInt(1)))))

\* e is start + d, d a duration of the claim: a number without fraction.
IsStartPlus(e, start, d) ==
  /\ d.kind = "rat"
  /\ ~add_overflows(start, d.num)
  /\ e = start + d.num

\* C16: for a slider hit object (type bit 0x2, at least 8 fields) the end
\* recorded is start + floor(max(0, length / (sliderMultiplier * 100 *
\* activeSV) * activeBeat * slides)), activeBeat and activeSV being the tempo
\* state at the slider's start.
C16_SliderEndIsFormula ==
  [][AtSliderLine =>
       /\ ~locals'.panicked
       /\ Len(locals'.hit_ends) = Len(locals.hit_ends) + 1
       /\ IsStartPlus(locals'.hit_ends[Len(locals'.hit_ends)], LineStart(Head(text)),
                      ClaimedDuration(Head(text),
                        ActiveTiming(locals.timing_points, LineStart(Head(text)),
                                     [active_beat |-> FInt(500), active_sv |-> FInt(1)])))]_vars

\* The line about to be parsed is an Events line of at least 3 fields whose
\* first field is "0".
AtBackgroundEvent ==
  /\ pc = "parse" /\ text # <<>> /\ ~locals.panicked
  /\ locals.section = "Events"
  /\ csv_field_count(trim(Head(text))) >= 3
  /\ trim(unwrap_or(csv_field(trim(Head(text)), 0), <<>>)) = <<48>>

\* The third field of a line, trimmed and stripped of its quotes.
LineCandidate(line) ==
  trim_matches_quote(trim(unwrap_or(csv_field(trim(line), 2), <<>>)))

\* C17: the background is set at most once.  The first "0" event of at least
\* 3 fields whose quote-stripped third field ends in an image extension sets
\* it; every later "0" event leaves it unchanged; a "0" event whose third
\* field is no image neither sets it nor blocks a later one (the parse goes
\* on).
C17_FirstImageSetsBackground ==
  [][/\ locals.metadata.background # <<>> =>
          locals'.metadata.background = locals.metadata.background
     /\ AtBackgroundEvent /\ locals.metadata.background = <<>> =>
          /\ ~locals'.panicked
          /\ locals'.metadata.background =
               IF is_image_ext(LineCandidate(Head(text)))
                 THEN LineCandidate(Head(text)) ELSE <<>>]_vars

\* The non-empty terms of a filter string: its pieces between commas,
\* trimmed and lowercased.
FilterTerms(name) ==
  {to_ascii_lowercase(trim(split(unwrap_or(name, <<>>), 44)[k])) :
     k \in 1..Len(split(unwrap_or(name, <<>>), 44))} \ {<<>>}

\* The full-parse path has returned: its filter was applied to the metadata
\* of parse_ret.
FilterApplied == pc = "returned" /\ entry_point = "parse"

\* 'BlueDragon', 'Insane'
BlueDragon == <<66, 108, 117, 101, 68, 114, 97, 103, 111, 110>>
Insane == <<73, 110, 115, 97, 110, 101>>

\* C18: a file passes the mapper filter iff the filter string yields no
\* non-empty term after splitting on commas, trimming and lowercasing, or at
\* least one such term is a substring of the lowercased creator or of the
\* lowercased version; creator "BlueDragon", version "Insane" passes "dragon"
\* and fails "red".
C18_FilterBySubstring ==
  FilterApplied =>
    LET m == Unwrap(parse_ret).metadata
        passes == IsSome(Unwrap(ret))
    IN  /\ passes <=>
             \/ FilterTerms(mapper_name) = {}
             \/ \E term \in FilterTerms(mapper_name) :
                  \/ contains(to_ascii_lowercase(m.creator), term)
                  \/ contains(to_ascii_lowercase(m.version), term)
        /\ m.creator = BlueDragon /\ m.version = Insane /\ mapper_name = Some(FilterLower)
             => passes
        /\ m.creator = BlueDragon /\ m.version = Insane /\ mapper_name = Some(FilterRed)
             => ~passes

\* The filter "dragon" was applied to a file of creator BlueDragon and version
\* Insane, and the file passed with its full payload.
C18_Witness ==
  /\ FilterApplied
  /\ mapper_name = Some(FilterLower)
  /\ Unwrap(parse_ret).metadata.creator = BlueDragon
  /\ Unwrap(parse_ret).metadata.version = Insane
  /\ IsSome(Unwrap(ret))
  /\ Unwrap(Unwrap(ret)).metadata = Some(Unwrap(parse_ret).metadata)

\* C19: the command scan_directory_osu_files returns only after the streaming
\* scan has emitted its scan-complete event, all workers joined, and the value
\* it returns always has an empty file list: the results are in the
\* scan-batch events alone.
C19_ResolvesAfterComplete ==
  IsSome(async_ret) =>
    /\ CompleteAt = {Len(events)}
    /\ joined = Len(workers)
    /\ \A w \in 1..Len(workers) : workers[w].pc \in {"done", "panicked"}
    /\ Unwrap(async_ret).files = <<>>
    /\ Unwrap(async_ret).directory = dir_path

\* The command resolved after a scan that had emitted results in batches
\* before its scan-complete event.
C19_Witness ==
  /\ IsSome(async_ret)
  /\ Unwrap(async_ret).files = <<>>
  /\ \E i \in BatchAt : events[i].payload.files # <<>>
  /\ Len(workers) > 1

\* Candidate e can be opened and its content is not valid UTF-8.
InvalidUtf8Candidate(e) ==
  FileAt(e.file_path).open_ok /\ ~is_valid_utf8(FileAt(e.file_path).bytes)

\* Candidate e is on the full-parse path: not cached, or cached with another
\* time.
OnFullParsePath(e) ==
  ~(e.file_path \in DOMAIN known /\ mtime_unchanged(known[e.file_path], e.mtime_ms))

\* C20: a candidate whose content holds invalid UTF-8 bytes is lossy-decoded
\* and parsed like any other file: on the full-parse path the scan gives what
\* the parse of the lossy-decoded content gives, a full payload when no filter
\* is set, rather than nothing.
C20_InvalidUtf8FullPayload ==
  \A k \in 1..Len(osu_entries) :
    InvalidUtf8Candidate(osu_entries[k]) /\ OnFullParsePath(osu_entries[k]) =>
      LET e == osu_entries[k]
          r == scan_single_osu_file(e.file_path, e.mtime_ms, known, mappers)
      IN  /\ r = scan_parsed(e.file_path, e.mtime_ms, mappers,
                             parse_osu_content(from_utf8_lossy(FileAt(e.file_path).bytes)))
          /\ mappers = <<>> => IsSome(r.result) /\ IsFullShape(Unwrap(r.result))

\* The outputs of a parse: everything but the section and the panic flag.
Outputs(st) ==
  <<st.metadata, st.break_periods, st.bookmarks, st.hit_starts, st.hit_ends,
    st.slider_multiplier, st.timing_points, st.hit_types>>

\* The section a header names: one of the seven known names in any case, or
\* Other.
SectionNamed(header) ==
  LET known_names == {S_General, S_Editor, S_Metadata, S_Difficulty, S_Events,
                      S_TimingPoints, S_HitObjects}
      same == {n \in known_names : to_ascii_lowercase(n) = to_ascii_lowercase(header)}
  IN  IF same = {} THEN "Other"
      ELSE IF S_General \in same THEN "General"
      ELSE IF S_Editor \in same THEN "Editor"
      ELSE IF S_Metadata \in same THEN "Metadata"
      ELSE IF S_Difficulty \in same THEN "Difficulty"
      ELSE IF S_Events \in same THEN "Events"
      ELSE IF S_TimingPoints \in same THEN "TimingPoints"
      ELSE "HitObjects"

\* The line is blank or starts with //.
IsBlankOrComment(line) ==
  \/ trim(line) = <<>>
  \/ Len(trim(line)) >= 2 /\ trim(line)[1] = 47 /\ trim(line)[2] = 47

\* The line has the form [Header].
IsHeaderLine(line) ==
  /\ ~IsBlankOrComment(line)
  /\ trim(line)[1] = 91
  /\ trim(line)[Len(trim(line))] = 93

\* C21: the section changes only on a line of the form [Header], which
\* selects the section of that name, matched without regard to case, or Other;
\* a blank line or a line starting with // changes neither the section nor any
\* output; a line met in section None or Other changes no output.
C21_SectionChangesOnHeaders ==
  [][pc = "parse" /\ text # <<>> /\ ~locals.panicked =>
       /\ IsBlankOrComment(Head(text)) => locals' = locals
       /\ IsHeaderLine(Head(text)) =>
            /\ locals'.section =
                 SectionNamed(SubSeq(trim(Head(text)), 2, Len(trim(Head(text))) - 1))
            /\ Outputs(locals') = Outputs(locals)
       /\ ~IsHeaderLine(Head(text)) => locals'.section = locals.section
       /\ locals.section \in {"None", "Other"} => Outputs(locals') = Outputs(locals)]_vars

\* A parse of headers and data lines ended in the Metadata section, which only
\* the lowercase header [metadata] selects there, with the title of a later
\* line; the background line of the texts was met in another section or not
\* at all.
C21_Witness ==
  /\ pc = "parse" /\ text = <<>>
  /\ locals.section = "Metadata"
  /\ locals.metadata.title = <<83, 111, 110, 103>>
  /\ locals.metadata.background = <<>>

\* The largest element of a non-empty set of numbers.
MaxOf(S) == CHOOSE x \in S : \A y \in S : y <= x

\* The tempo state the claim gives a slider that starts at start: of the
\* points before the first one later than start, the last uninherited one
\* gives activeBeat (500 without one), and the last inherited one of negative
\* beat length after it gives activeSV = -100 / beatLength (1.0 without one).
ClaimedTempo(tps, start) ==
  LET later == {i \in 1..Len(tps) : tps[i].time > start}
      stop  == IF later = {} THEN Len(tps) + 1
               ELSE CHOOSE i \in later : \A j \in later : i <= j
      uninh == {i \in 1..(stop - 1) : tps[i].uninherited}
      lastU == IF uninh = {} THEN 0 ELSE MaxOf(uninh)
      inh   == {i \in (lastU + 1)..(stop - 1) :
                  ~tps[i].uninherited /\ FIsNegative(tps[i].beat_length)}
  IN  [active_beat |-> IF lastU = 0 THEN FInt(500) ELSE tps[lastU].beat_length,
       active_sv   |-> IF inh = {} THEN FInt(1)
                       ELSE FDiv(FInt(-100), tps[MaxOf(inh)].beat_length)]

\* C22: the tempo state of a slider comes from the timing points in file
\* order up to the first one whose time is greater than the slider's start:
\* each of them is applied in order, none after it is consulted even if its
\* time is <= start, and without an applicable point activeBeat is 500 and
\* activeSV 1.0.
C22_TempoStopsAtFirstLater ==
  [][AtSliderLine =>
       locals'.active = ClaimedTempo(locals.timing_points, LineStart(Head(text)))]_vars

\* A slider at 1000 was parsed after the points 2000,250 and 500,-50 in that
\* order: the scan stopped at the first, and the second, though earlier than
\* the slider, was not applied.
C22_Witness ==
  /\ Len(locals.timing_points) = 2
  /\ locals.timing_points[1].time = 2000
  /\ locals.timing_points[2].time = 500
  /\ locals.hit_starts = <<1000>>
  /\ locals.hit_types \in {<<2>>, <<6>>}
  /\ locals.active = [active_beat |-> FInt(500), active_sv |-> FInt(1)]

\* The line about to be parsed is a line of the TimingPoints section that
\* records a point: at least 2 fields.
AtTimingLine ==
  /\ pc = "parse" /\ text # <<>> /\ ~locals.panicked
  /\ locals.section = "TimingPoints"
  /\ ~IsBlankOrComment(Head(text)) /\ ~IsHeaderLine(Head(text))
  /\ csv_field_count(trim(Head(text))) >= 2

\* The point the step has recorded.
RecordedPoint == locals'.timing_points[Len(locals'.timing_points)]

\* C23 as stated: the uninherited flag of a recorded point is true when the
\* line has at least 7 fields and field 6 is "1", and is also true when field
\* 6 has any other value or is absent.
C23_UninheritedAlwaysTrue ==
  [][AtTimingLine =>
       /\ Len(locals'.timing_points) = Len(locals.timing_points) + 1
       /\ RecordedPoint.uninherited = TRUE]_vars

\* C23 amended: the uninherited flag of a recorded point is true when the
\* line has fewer than 7 fields or its field 6, trimmed, is "1", and false
\* when the line has at least 7 fields and field 6 is anything else.
C23_UninheritedFromFieldSix ==
  [][AtTimingLine =>
       /\ Len(locals'.timing_points) = Len(locals.timing_points) + 1
       /\ RecordedPoint.uninherited =
            \/ csv_field_count(trim(Head(text))) < 7
            \/ trim(unwrap_or(csv_field(trim(Head(text)), 6), <<>>)) = <<49>>]_vars

\* Two points were recorded: 0,500,4,2,0,100,1,0 as uninherited, then
\* 500,-50,4,2,0,100,0,0, whose field 6 is "0", as inherited.
C23_Witness ==
  /\ Len(locals.timing_points) = 2
  /\ locals.timing_points[1].time = 0 /\ locals.timing_points[1].uninherited
  /\ locals.timing_points[2].time = 500 /\ ~locals.timing_points[2].uninherited

\* Every object with the slider bit ends no earlier than the next one starts.
SlidersReachNext(hit_starts, hit_ends, hit_types) ==
  \A i \in 1..(Len(hit_starts) - 1) :
    hit_types[i] % 4 >= 2 => hit_ends[i] >= hit_starts[i + 1]

\* The step has appended a hit object.
HitAppended == Len(locals'.hit_starts) = Len(locals.hit_starts) + 1

\* C24: for consecutive hit objects i, i+1 where i has the slider bit,
\* hit_ends[i] >= hit_starts[i+1]: when the next object is recorded the end
\* of a previous slider is raised to its start if it was smaller and left
\* unchanged otherwise, the end of a previous object without the slider bit
\* is not modified, and no earlier end changes.
C24_SliderEndReachesNext ==
  [][/\ SlidersReachNext(locals'.hit_starts, locals'.hit_ends, locals'.hit_types)
     /\ IsSome(parse_ret') =>
          SlidersReachNext(Unwrap(parse_ret').hit_starts, Unwrap(parse_ret').hit_ends,
                           locals.hit_types)
     /\ HitAppended =>
          \A i \in 1..Len(locals.hit_ends) :
            locals'.hit_ends[i] =
              IF i = Len(locals.hit_ends) /\ locals.hit_types[i] % 4 >= 2
                THEN Max(locals.hit_ends[i], locals'.hit_starts[i + 1])
                ELSE locals.hit_ends[i]]_vars

\* A parse returned a slider at 200, whose own end was below 1000, followed
\* by an object at 1000: the slider's end is 1000.
C24_Witness ==
  /\ IsSome(parse_ret)
  /\ Unwrap(parse_ret).hit_starts = <<200, 1000>>
  /\ locals.hit_types[1] = 2
  /\ Unwrap(parse_ret).hit_ends[1] = 1000

\* The concatenation of the sequences of a sequence.
RECURSIVE Concat(_)
Concat(ss) == IF ss = <<>> THEN <<>> ELSE Head(ss) \o Concat(Tail(ss))

\* The scan has split its candidates and spawned every worker.
WorkersSpawned ==
  /\ pc \in {"join", "finish", "returned", "resolved"}
  /\ osu_entries # <<>>

\* C25: the candidate list is split into exactly W contiguous chunks, one per
\* worker, W = min(clamp(2 x hardware parallelism, 4, 32), candidate count);
\* the chunks are disjoint and, concatenated in order, give back the
\* candidate list.
C25_ExactlyWChunks ==
  WorkersSpawned =>
    /\ Len(chunks) = Min(clamp(2 * unwrap_or(parallelism, 4), 4, 32), Len(osu_entries))
    /\ Len(workers) = Len(chunks)
    /\ \A w \in 1..Len(workers) : workers[w].chunk_entries = chunks[w]
    /\ \A c \in 1..Len(chunks) : chunks[c] # <<>>
    /\ Concat(chunks) = osu_entries

\* The worker whose chunk holds the file, and the file's place in that chunk.
OwnerOf(path) ==
  CHOOSE w \in 1..Len(chunks) : \E k \in 1..Len(chunks[w]) : chunks[w][k].file_path = path

PlaceOf(path) ==
  CHOOSE k \in 1..Len(chunks[OwnerOf(path)]) : chunks[OwnerOf(path)][k].file_path = path

\* The files of the i-th event, a scan-batch event.
BatchFiles(i) == events[i].payload.files

\* Every file of the batch is of one worker's chunk, at increasing places.
BatchInChunkOrder(i) ==
  /\ \A a \in 1..Len(BatchFiles(i)) :
       \E w \in 1..Len(chunks) : \E k \in 1..Len(chunks[w]) :
         chunks[w][k].file_path = BatchFiles(i)[a].file_path
  /\ \A a \in 1..(Len(BatchFiles(i)) - 1) :
       /\ OwnerOf(BatchFiles(i)[a].file_path) = OwnerOf(BatchFiles(i)[a + 1].file_path)
       /\ PlaceOf(BatchFiles(i)[a].file_path) < PlaceOf(BatchFiles(i)[a + 1].file_path)

\* A later batch of the same worker goes on after the earlier one.
BatchesInChunkOrder(i, j) ==
  (/\ i < j
   /\ BatchFiles(i) # <<>>
   /\ BatchFiles(j) # <<>>
   /\ OwnerOf(BatchFiles(i)[1].file_path) = OwnerOf(BatchFiles(j)[1].file_path))
  => PlaceOf(BatchFiles(i)[Len(BatchFiles(i))].file_path) < PlaceOf(BatchFiles(j)[1].file_path)

\* C26: within one worker of the streaming scan, the batches it emitted,
\* concatenated in the order of emission, are a subsequence of its chunk: the
\* files keep the chunk's order inside every batch and from one batch to the
\* worker's next.
C26_BatchesKeepChunkOrder ==
  entry_point = "streaming" =>
    /\ \A i \in BatchAt : BatchInChunkOrder(i)
    /\ \A i \in BatchAt : \A j \in BatchAt : BatchesInChunkOrder(i, j)

\* A worker has emitted a full batch and, after it, another batch.
C26_Witness ==
  /\ entry_point = "streaming"
  /\ \E i \in BatchAt : \E j \in BatchAt :
       /\ i < j
       /\ Len(BatchFiles(i)) = BatchSize
       /\ BatchFiles(j) # <<>>
       /\ OwnerOf(BatchFiles(i)[1].file_path) = OwnerOf(BatchFiles(j)[1].file_path)

\* The loop of parse_header_creator_and_version without its two breaks: every
\* line is visited.
RECURSIVE HeaderLinesAll(_, _)
HeaderLinesAll(h, ls) ==
  IF ls = <<>> THEN h ELSE HeaderLinesAll(HeaderLine(h, Head(ls)), Tail(ls))

\* The header text the fast path reads from the content.
HeaderContent == from_utf8_lossy(TakeHeader(content_of(text)))

\* C27: the early stop of parse_header_creator_and_version is a pure
\* optimization: the (creator, version) it returns for an input is the pair
\* it would return if it visited every line of the input, the last Creator
\* and the last Version of the Metadata sections.
C27_EarlyStopChangesNothing ==
  [][(HeaderScan /\ IsSome(Unwrap(header_ret').header)) =>
       Unwrap(Unwrap(header_ret').header)
         = HeaderResult(HeaderLinesAll(HeaderStart, lines(HeaderContent)))]_vars

\* The content was included on the fast path, as an unchanged file.
IncludedUnchanged == IsSome(header_ret) /\ IsSome(Unwrap(header_ret).result)

\* The content was included on the full-parse path, with a full payload.
IncludedFull == pc = "returned" /\ IsSome(ret) /\ IsSome(Unwrap(ret))

\* C28: for a content shorter than the 8 KB header prefix and given filter
\* terms, the filter decides the same on the cache-unchanged path (creator and
\* version of the header parser) and on the full-parse path (creator and
\* version of the full parser): the file is included as unchanged iff the
\* same content is included with a full payload.
C28_SameDecisionOnBothPaths ==
  (entry_point = "parse" /\ pc \in {"returned", "unwound"}) =>
    (IncludedUnchanged <=> IncludedFull)

\* The path is among the candidates.
IsCandidate(path) == \E k \in 1..Len(osu_entries) : osu_entries[k].file_path = path

\* C29: find_osu_files_with_mtime skips every entry that is unreadable or
\* vanishes, an entry whose metadata or modification time cannot be obtained
\* included: such an entry is not among the candidates, and the walk goes on
\* with the other entries, every readable .osu file of which is a candidate.
C29_NoCandidateWithoutMtime ==
  (pc # "call" /\ root_ok /\ entry_point \in {"streaming", "internal"}) =>
    \A i \in 1..Len(tree) :
      IF ~tree[i].walk_ok \/ tree[i].modified = None
        THEN ~IsCandidate(tree[i].path)
        ELSE IsOsuEntry(tree[i]) => IsCandidate(tree[i].path)

\* The places (event, index in the batch) of the results handed to the sink.
EmittedAt == UNION {{<<i, a>> : a \in 1..Len(events[i].payload.files)} : i \in BatchAt}

\* The paths of the results handed to the sink.
EmittedPaths == {events[p[1]].payload.files[p[2]].file_path : p \in EmittedAt}

\* The candidates for which scan_single_osu_file returns a result.
PathsWithResult ==
  {osu_entries[k].file_path : k \in
     {j \in 1..Len(osu_entries) :
        IsSome(scan_single_osu_file(osu_entries[j].file_path, osu_entries[j].mtime_ms,
                                    known, mappers).result)}}

\* C31: in a streaming scan every candidate is handled by one worker and is in
\* at most one batch, once: the emitted paths have no duplicate, and when the
\* scan has returned they are exactly the candidates for which
\* scan_single_osu_file returns a result.
C31_EmittedOnceAndAll ==
  entry_point = "streaming" =>
    /\ Cardinality(EmittedAt) = Cardinality(EmittedPaths)
    /\ pc = "returned" => EmittedPaths = PathsWithResult

\* The results handed to the sink.
EmittedResults == {events[p[1]].payload.files[p[2]] : p \in EmittedAt}

\* The results a worker of scan_directory_internal returns for a chunk: the
\* out of its loop, or nothing when the thread panicked and its join is Err.
InternalOut(chunk) ==
  LET r == CollectRange(chunk, 1, Len(chunk), LoopStart(1, <<>>, known))
  IN  IF r.stop = "panic" THEN {} ELSE {r.local_batch[k] : k \in 1..Len(r.local_batch)}

\* The results of the list scan_directory_internal returns for the directory,
\* filter and cache of the scan.
InternalResults == UNION {InternalOut(chunks[c]) : c \in 1..Len(chunks)}

\* C32: for the same directory content, filter and cache, the set of results
\* emitted over all batches of scan_directory_streaming equals the set of
\* results of the list scan_directory_internal returns, in every interleaving
\* of the workers.
C32_StreamingEqualsInternal ==
  pc = "returned" =>
    /\ entry_point = "streaming" => EmittedResults = InternalResults
    /\ entry_point = "internal" =>
         {Unwrap(ret)[k] : k \in 1..Len(Unwrap(ret))} = InternalResults

\* Every worker has ended, by the end of its closure or by a panic.
AllWorkersEnded == \A w \in 1..Len(workers) : workers[w].pc \in {"done", "panicked"}

\* The accumulator counts no batch that the sink was not handed.
CountedWereEmitted ==
  entry_point = "streaming" => total_emitted <= BatchSizeSum(Len(events))

\* The accumulator never decreases, and the step that emits scan-complete reads
\* it when every worker has ended.
CountGrowsAndIsReadLast ==
  /\ total_emitted' >= total_emitted
  /\ StreamingComplete =>
       /\ AllWorkersEnded
       /\ events'[Len(events')].payload.total_files = total_emitted

\* C33: at every moment of a streaming scan the emitted-count accumulator is
\* at most the sum of the sizes of the batches already handed to the sink (a
\* batch is counted after its emit call), it never decreases, and the
\* completion event reads it after every worker has added its last batch.
C33_CountFollowsEmits ==
  /\ []CountedWereEmitted
  /\ [][CountGrowsAndIsReadLast]_vars

\* One batch has been counted, and another was handed to the sink by a worker
\* that has yet to count it.
C33_Witness ==
  /\ entry_point = "streaming"
  /\ 0 < total_emitted
  /\ total_emitted < BatchSizeSum(Len(events))
  /\ \E w \in 1..Len(workers) : workers[w].pc = "add" /\ workers[w].count > 0

\* The scan-batch events of fewer than BatchSize results.
SmallBatches == {i \in BatchAt : Len(events[i].payload.files) < BatchSize}

\* The worker hands over a batch before the end of its chunk.
EmitsBeforeEnd(w) == EmitBatch(w) /\ ~workers[w].final

\* C34: in a streaming scan every batch a worker emits before the end of its
\* chunk has exactly 50 results; only a worker's last batch may be smaller,
\* so the batches of fewer than 50 results are never more than the workers.
C34_OnlyLastBatchSmall ==
  /\ [](entry_point = "streaming" => Cardinality(SmallBatches) <= Len(workers))
  /\ [][\A w \in 1..Len(workers) :
          EmitsBeforeEnd(w) =>
            Len(events'[Len(events')].payload.files) = BatchSize]_vars

\* A worker has emitted a batch of 50 before the end of its chunk and a
\* smaller last batch, and the scan has returned.
C34_Witness ==
  /\ entry_point = "streaming"
  /\ pc = "returned"
  /\ \E i \in BatchAt : \E j \in SmallBatches :
       /\ i < j
       /\ Len(BatchFiles(i)) = BatchSize
       /\ OwnerOf(BatchFiles(i)[1].file_path) = OwnerOf(BatchFiles(j)[1].file_path)
  /\ Cardinality(SmallBatches) >= 2

====
